---------------------------- MODULE Spec2Model ----------------------------
(***************************************************************************)
(* Model of the clinical data analyser's deterministic core:               *)
(*   - src/utils/comparisonHelpers.ts  (value extraction, range parsing,   *)
(*     interval / threshold / literal comparison)                          *)
(*   - src/utils/referenceMatcher.ts   (reference resolution)              *)
(*   - the reference index construction of the application component     *)
(*     (src/unnamed/part_002),                                             *)
(*   - the bulk runs of src/unnamed/part_001 and                           *)
(*     src/services/groqService.ts, the classifier being any answer.       *)
(*                                                                         *)
(* A JavaScript string is a sequence of characters; a character is a       *)
(* one-letter TLA+ string.  The two dash characters outside ASCII are the  *)
(* atoms EnDash and EmDash.                                                *)
(***************************************************************************)
EXTENDS Integers, Sequences, FiniteSets, TLC

VARIABLES
    value,          \* comparison helpers: first argument (string)
    expected,       \* comparison helpers: second argument (range / threshold / expected)
    call,           \* comparison helpers: which helper ran last ("none" before any)
    answer,         \* comparison helpers: what that helper returned
    referenceMap,   \* Map<string, ReferenceDataRow[]> as a sequence of [key, refs] in insertion order
    entryList,     \* the entry list handed to selectBestGenderMatch when called on its own
    patientRow,     \* the PatientDataRow last passed to findBestReferenceMatch
    matched,        \* what findBestReferenceMatch returned for it
    lookups,        \* the calls of findBestReferenceMatch so far: [row, ref] records
    ingested,       \* the reference rows the forEach of the run handler has gone through
    provider,       \* bulk run: "gemini" or "groq"
    patientRows,    \* bulk run: the patient rows passed in
    pc,             \* bulk run: "idle", "loop" (about to call processBatch), "returned",
                    \* "returnedEarly" (the return of the daily quota), "threw"
    batchStart,     \* bulk run: i of the for loop
    retryCount,     \* bulk run: retryCount of the while loop
    results,        \* bulk run: the results array
    processedCount, \* bulk run: processedCount
    progressCalls,  \* bulk run: the calls of onProgress so far, as [processed, total]
    submitted,      \* bulk run: the indices of the rows processBatch has been called with
    attempts,       \* bulk run: the calls of processBatch for the batch called last:
                    \* [startIndex, count, failed]
    lastAnswer      \* bulk run: the comparisons array processBatch parsed last, with
                    \* the startIndex of its batch

vars == <<value, expected, call, answer, referenceMap, entryList, patientRow, matched,
          lookups, ingested, provider, patientRows, pc, batchStart, retryCount, results,
          processedCount, progressCalls, submitted, attempts, lastAnswer>>

cmpVars == <<value, expected, call, answer>>
resVars == <<referenceMap, entryList, patientRow, matched>>
runVars == <<lookups, ingested, provider, patientRows, pc, batchStart, retryCount, results,
             processedCount, progressCalls, submitted, attempts, lastAnswer>>

\* JavaScript values carry their type: null, undefined, a string (its
\* characters in str) or a number (the fraction num / den).
Null == [type |-> "null"]
Undefined == [type |-> "undefined"]
Str(s) == [type |-> "string", str |-> s]
Num(n, d) == [type |-> "number", num |-> n, den |-> d]

\* before any call of processBatch
NoAttempt == [startIndex |-> 0 - 1, count |-> 0, failed |-> 0]
NoAnswer == [startIndex |-> 0 - 1, comparisons |-> <<>>]

\* no lookup recorded, no bulk run under way
RunIdle ==
    /\ lookups = {}
    /\ ingested = <<>>
    /\ provider = "groq"
    /\ patientRows = <<>>
    /\ pc = "idle"
    /\ batchStart = 0
    /\ retryCount = 0
    /\ results = <<>>
    /\ processedCount = 0
    /\ progressCalls = <<>>
    /\ submitted = {}
    /\ attempts = NoAttempt
    /\ lastAnswer = NoAnswer

(***************************************************************************)
(* Characters and strings                                                  *)
(***************************************************************************)
EnDash == "endash"
EmDash == "emdash"

Digits == <<"0", "1", "2", "3", "4", "5", "6", "7", "8", "9">>
UpperCase == <<"A", "B", "C", "D", "E", "F", "G", "H", "I", "J", "K", "L", "M",
               "N", "O", "P", "Q", "R", "S", "T", "U", "V", "W", "X", "Y", "Z">>
LowerCase == <<"a", "b", "c", "d", "e", "f", "g", "h", "i", "j", "k", "l", "m",
               "n", "o", "p", "q", "r", "s", "t", "u", "v", "w", "x", "y", "z">>

Range(f) == {f[i] : i \in DOMAIN f}

DigitChars == Range(Digits)

\* /\d/
IsDigit(c) == c \in DigitChars

DigitValues == [c \in DigitChars |-> (CHOOSE i \in DOMAIN Digits : Digits[i] = c) - 1]

DigitValue(c) == DigitValues[c]

\* /\s/ and the characters String.prototype.trim removes
IsSpace(c) == c \in {" ", "\t"}

LowerOf ==
    [c \in Range(UpperCase) |-> LowerCase[CHOOSE i \in DOMAIN UpperCase : UpperCase[i] = c]]

toLowerCaseChar(c) == IF c \in DOMAIN LowerOf THEN LowerOf[c] ELSE c

\* String.prototype.toLowerCase
toLowerCase(s) == [i \in 1..Len(s) |-> toLowerCaseChar(s[i])]

\* String.prototype.trim
trim(s) ==
    LET keep == {i \in 1..Len(s) : ~IsSpace(s[i])}
    IN  IF keep = {} THEN <<>>
        ELSE LET first == CHOOSE i \in keep : \A j \in keep : i <= j
                 last  == CHOOSE i \in keep : \A j \in keep : j <= i
             IN  SubSeq(s, first, last)

\* String.prototype.includes
includes(s, t) ==
    \E i \in 0..(Len(s) - Len(t)) : \A j \in 1..Len(t) : s[i + j] = t[j]

AllDigits(s, from, to) == \A i \in from..to : IsDigit(s[i])
AllSpaces(s, from, to) == \A i \in from..to : IsSpace(s[i])

\* /\d/.test(s)
HasDigit(s) == \E i \in 1..Len(s) : IsDigit(s[i])

(***************************************************************************)
(* Numbers.  A number read from decimal text is the exact fraction         *)
(* num / den with den a power of ten; the texts of the model are short     *)
(* enough that the doubles JavaScript computes order the same way.         *)
(***************************************************************************)
RECURSIVE Pow10(_)
Pow10(n) == IF n = 0 THEN 1 ELSE 10 * Pow10(n - 1)

RECURSIVE DigitsValue(_, _, _)
\* the natural number written by the digits s[from..to]
DigitsValue(s, from, to) ==
    IF to < from THEN 0
    ELSE 10 * DigitsValue(s, from, to - 1) + DigitValue(s[to])

\* a >= b, a <= b, a > b, a < b on numbers
NumGe(a, b) == a.num * b.den >= b.num * a.den
NumLe(a, b) == a.num * b.den <= b.num * a.den
NumGt(a, b) == a.num * b.den > b.num * a.den
NumLt(a, b) == a.num * b.den < b.num * a.den

\* The ways the text t can be read as [+-]?\d*\.?\d+ : sg characters of
\* sign, a digits, d decimal points, b digits, together the whole of t.
NumPatternParses(t) ==
    {[sg |-> x[1], a |-> x[2], d |-> x[3], b |-> Len(t) - x[1] - x[2] - x[3]] :
        x \in {y \in {0, 1} \X (0..Len(t)) \X {0, 1} :
                  /\ Len(t) - y[1] - y[2] - y[3] >= 1
                  /\ y[1] = 1 => t[1] \in {"+", "-"}
                  /\ AllDigits(t, y[1] + 1, y[1] + y[2])
                  /\ y[3] = 1 => t[y[1] + y[2] + 1] = "."
                  /\ AllDigits(t, y[1] + y[2] + y[3] + 1, Len(t))}}

\* t as a whole matches [+-]?\d*\.?\d+
MatchesNumPattern(t) == NumPatternParses(t) # {}

\* parseFloat on a text that matches [+-]?\d*\.?\d+ : optional sign, the
\* integer digits, and the fraction digits after a decimal point.
parseFloat(t) ==
    LET neg   == Len(t) > 0 /\ t[1] = "-"
        start == IF Len(t) > 0 /\ t[1] \in {"+", "-"} THEN 2 ELSE 1
        dots  == {i \in start..Len(t) : t[i] = "."}
        dot   == IF dots = {} THEN Len(t) + 1
                 ELSE CHOOSE i \in dots : \A j \in dots : i <= j
        frac  == IF dot > Len(t) THEN 0 ELSE Len(t) - dot
        mag   == DigitsValue(t, start, dot - 1) * Pow10(frac)
                     + DigitsValue(t, dot + 1, Len(t))
    IN  Num(IF neg THEN 0 - mag ELSE mag, Pow10(frac))

RECURSIVE NatToString(_)
\* the decimal digits of a natural number
NatToString(n) ==
    IF n < 10 THEN <<Digits[n + 1]>>
    ELSE Append(NatToString(n \div 10), Digits[(n % 10) + 1])

RECURSIVE FractionDigits(_, _)
\* the digits of r / den after the decimal point, den a power of ten, r < den
FractionDigits(r, den) ==
    IF den = 1 THEN <<>>
    ELSE <<Digits[(r \div (den \div 10)) + 1]>>
             \o FractionDigits(r % (den \div 10), den \div 10)

RECURSIVE Reduced(_)
\* the same number without trailing zeros in its fraction
Reduced(n) ==
    IF n.den > 1 /\ n.num % 10 = 0
    THEN Reduced(Num(n.num \div 10, n.den \div 10))
    ELSE n

\* Number.prototype.toString for the finite decimals of the model
NumberToString(n) ==
    LET r   == Reduced(n)
        abs == IF r.num < 0 THEN 0 - r.num ELSE r.num
    IN  (IF r.num < 0 THEN <<"-">> ELSE <<>>)
            \o NatToString(abs \div r.den)
            \o (IF r.den = 1 THEN <<>>
                ELSE <<".">> \o FractionDigits(abs % r.den, r.den))

\* value.toString() of a string | number
toString(v) == IF v.type = "number" THEN NumberToString(v) ELSE v.str

\* String.prototype.replace(/c/g, '') and replace(/c/g, d)
RemoveAll(s, c) == SelectSeq(s, LAMBDA x : x # c)
ReplaceAll(s, c, d) == [i \in 1..Len(s) |-> IF s[i] = c THEN d ELSE s[i]]

(***************************************************************************)
(* src/utils/comparisonHelpers.ts                                          *)
(***************************************************************************)

\* A regular expression tries its alternatives greedily, in order: a sign
\* before none, more digits before fewer, a decimal point before none.
\* p is tried before q:
TriedBefore(p, q) ==
    \/ p.sg > q.sg
    \/ p.sg = q.sg /\ p.a > q.a
    \/ p.sg = q.sg /\ p.a = q.a /\ p.d > q.d
    \/ p.sg = q.sg /\ p.a = q.a /\ p.d = q.d /\ p.b >= q.b

\* s.match(/^([+-]?\d*\.?\d+)/): the length of the captured text, 0 when
\* there is no match.
LeadingNumberMatch(s) ==
    LET parses == UNION {NumPatternParses(SubSeq(s, 1, n)) : n \in 1..Len(s)}
    IN  IF parses = {} THEN 0
        ELSE LET p == CHOOSE x \in parses : \A y \in parses : TriedBefore(x, y)
             IN  p.sg + p.a + p.d + p.b

\* variant of extractNumericValue whose pattern is not anchored at the start
extractNumericValueAnywhere(v) ==
    IF v.type = "number" THEN v
    ELSE LET s == toString(v)
             starts == {i \in 1..Len(s) : LeadingNumberMatch(SubSeq(s, i, Len(s))) > 0}
         IN  IF starts = {} THEN Null
             ELSE LET i == CHOOSE x \in starts : \A y \in starts : x <= y
                      t == SubSeq(s, i, Len(s))
                  IN  parseFloat(SubSeq(t, 1, LeadingNumberMatch(t)))

extractNumericValue(v) ==
    IF v.type = "number" THEN v
    ELSE LET s == toString(v)
             n == LeadingNumberMatch(s)
         IN  IF n > 0 THEN parseFloat(SubSeq(s, 1, n)) ELSE Null

\* cleanRange.match(/^([+-]?\d*\.?\d+)\s*-\s*([+-]?\d*\.?\d+)$/): the
\* ways to split s into a number ending at i, the hyphen at j and a number
\* starting at k.
RangePatternParses(s) ==
    {p \in [i : 1..Len(s), j : 1..Len(s), k : 1..Len(s)] :
        /\ p.i < p.j /\ p.j < p.k
        /\ s[p.j] = "-"
        /\ AllSpaces(s, p.i + 1, p.j - 1)
        /\ AllSpaces(s, p.j + 1, p.k - 1)
        /\ MatchesNumPattern(SubSeq(s, 1, p.i))
        /\ MatchesNumPattern(SubSeq(s, p.k, Len(s)))}

\* variant of parseRange that puts the smaller bound first
parseRangeOrdered(range) ==
    LET cleanRange == ReplaceAll(RemoveAll(range, ","), EnDash, "-")
        parses     == RangePatternParses(cleanRange)
    IN  IF parses # {}
        THEN LET p == CHOOSE x \in parses :
                          \A y \in parses : x.i > y.i \/ (x.i = y.i /\ x.j >= y.j)
                 a == parseFloat(SubSeq(cleanRange, 1, p.i))
                 b == parseFloat(SubSeq(cleanRange, p.k, Len(cleanRange)))
             IN  [type |-> "range",
                  min  |-> IF NumLe(a, b) THEN a ELSE b,
                  max  |-> IF NumLe(a, b) THEN b ELSE a]
        ELSE Null

parseRange(range) ==
    LET cleanRange == ReplaceAll(RemoveAll(range, ","), EnDash, "-")
        parses     == RangePatternParses(cleanRange)
    IN  IF parses # {}
        THEN LET p == CHOOSE x \in parses :
                          \A y \in parses : x.i > y.i \/ (x.i = y.i /\ x.j >= y.j)
             IN  [type |-> "range",
                  min  |-> parseFloat(SubSeq(cleanRange, 1, p.i)),
                  max  |-> parseFloat(SubSeq(cleanRange, p.k, Len(cleanRange)))]
        ELSE Null

\* variant of isWithinRange with the lower end excluded
isWithinRangeExclusive(v, range) ==
    LET numericValue == extractNumericValue(v)
        parsedRange  == parseRange(range)
    IN  IF numericValue = Null \/ parsedRange = Null THEN FALSE
        ELSE NumGt(numericValue, parsedRange.min) /\ NumLe(numericValue, parsedRange.max)

isWithinRange(v, range) ==
    LET numericValue == extractNumericValue(v)
        parsedRange  == parseRange(range)
    IN  IF numericValue = Null \/ parsedRange = Null THEN FALSE
        ELSE NumGe(numericValue, parsedRange.min) /\ NumLe(numericValue, parsedRange.max)

\* threshold.match(/^([<>]=?)\s*([+-]?\d*\.?\d+)$/): an operator of 1 + e
\* characters and a number starting at k.
ThresholdPatternParses(s) ==
    {p \in [e : {0, 1}, k : 2..Len(s)] :
        /\ s[1] \in {"<", ">"}
        /\ p.e = 1 => s[2] = "="
        /\ p.k >= 2 + p.e
        /\ AllSpaces(s, 2 + p.e, p.k - 1)
        /\ MatchesNumPattern(SubSeq(s, p.k, Len(s)))}

\* variant of matchesThreshold that reads every operator as its inclusive form
matchesThresholdInclusive(v, threshold) ==
    LET numericValue == extractNumericValue(v)
        parses       == ThresholdPatternParses(threshold)
    IN  IF numericValue = Null THEN FALSE
        ELSE IF parses # {}
        THEN LET p == CHOOSE x \in parses : \A y \in parses : x.e >= y.e
                 thresholdValue == parseFloat(SubSeq(threshold, p.k, Len(threshold)))
             IN  IF threshold[1] = "<" THEN NumLe(numericValue, thresholdValue)
                 ELSE NumGe(numericValue, thresholdValue)
        ELSE FALSE

matchesThreshold(v, threshold) ==
    LET numericValue == extractNumericValue(v)
        parses       == ThresholdPatternParses(threshold)
    IN  IF numericValue = Null THEN FALSE
        ELSE IF parses # {}
        THEN LET p == CHOOSE x \in parses : \A y \in parses : x.e >= y.e
                 operator == SubSeq(threshold, 1, 1 + p.e)
                 thresholdValue == parseFloat(SubSeq(threshold, p.k, Len(threshold)))
             IN  CASE operator = <<"<">>      -> NumLt(numericValue, thresholdValue)
                   [] operator = <<"<", "=">> -> NumLe(numericValue, thresholdValue)
                   [] operator = <<">">>      -> NumGt(numericValue, thresholdValue)
                   [] operator = <<">", "=">> -> NumGe(numericValue, thresholdValue)
                   [] OTHER                   -> FALSE
        ELSE FALSE

PlusMinus == <<"+", "/", "-">>
Negative == <<"n", "e", "g", "a", "t", "i", "v", "e">>

\* variant of matchesString without the special case for +/-
matchesStringPlain(v, expectedText) ==
    toLowerCase(trim(toString(v))) = toLowerCase(trim(expectedText))

matchesString(v, expectedText) ==
    LET stringValue   == toLowerCase(trim(toString(v)))
        expectedValue == toLowerCase(trim(expectedText))
    IN  IF includes(stringValue, PlusMinus)
            \/ includes(stringValue, Negative \o <<" ">> \o PlusMinus)
        THEN expectedValue = Negative
        ELSE stringValue = expectedValue

(***************************************************************************)
(* src/utils/referenceMatcher.ts                                           *)
(*                                                                         *)
(* A ReferenceDataRow is the record [id, Parameter, NormalRange,           *)
(* GenderNotes]: id is the row's place in the reference sheet and stands   *)
(* for the identity of the object; the other fields are JavaScript values  *)
(* (a cell of the sheet may be text, a number or missing).  The reference  *)
(* map is the sequence of its entries [key, refs] in insertion order.      *)
(***************************************************************************)
Glucose == <<"g", "l", "u", "c", "o", "s", "e">>
Fasting == <<"f", "a", "s", "t", "i", "n", "g">>
Positive == <<"p", "o", "s", "i", "t", "i", "v", "e">>
Both == <<"b", "o", "t", "h">>

\* Array.from(referenceMap.keys())
MapKeys(map) == [i \in 1..Len(map) |-> map[i].key]

\* referenceMap.has(key)
MapHas(map, key) == \E i \in 1..Len(map) : map[i].key = key

\* referenceMap.get(key): the array stored under key; where the code reads
\* a key that may be absent it tests the result, which is MapHas here
MapGet(map, key) == map[CHOOSE i \in 1..Len(map) : map[i].key = key].refs

\* Array.prototype.find: the index of the first element of arr that is in P,
\* the set of the elements with the property; 0 when find returns undefined
FindIndex(arr, P) ==
    LET hits == {i \in 1..Len(arr) : arr[i] \in P}
    IN  IF hits = {} THEN 0 ELSE CHOOSE i \in hits : \A j \in hits : i <= j

RECURSIVE ConcatAll(_)
ConcatAll(seqs) == IF seqs = <<>> THEN <<>> ELSE Head(seqs) \o ConcatAll(Tail(seqs))

\* x?.toString()
OptToString(x) ==
    IF x.type \in {"undefined", "null"} THEN Undefined ELSE Str(toString(x))

\* x?.toString().trim()
OptTrim(x) ==
    IF x.type \in {"undefined", "null"} THEN Undefined ELSE Str(trim(toString(x)))

\* x?.toString().trim().toLowerCase()
OptTrimLower(x) ==
    IF x.type \in {"undefined", "null"} THEN Undefined
    ELSE Str(toLowerCase(trim(toString(x))))

\* x?.toString() || ''
TextOrEmpty(x) ==
    IF x.type \in {"undefined", "null"} THEN <<>> ELSE toString(x)

\* variant of selectBestGenderMatch that skips the "both" fallback
selectBestGenderMatchNoBoth(references, patientGender) ==
    IF Len(references) = 0 THEN Null
    ELSE LET g == FindIndex(references,
                     {r \in Range(references) : OptTrimLower(r.GenderNotes) = patientGender})
         IN  IF g > 0 THEN references[g] ELSE references[1]

\* variant of selectBestGenderMatch that returns a copy of the entry chosen
\* (a new object, id 0, with the same cells)
selectBestGenderMatchCopy(references, patientGender) ==
    IF Len(references) = 0 THEN Null
    ELSE LET exactGenderMatch ==
                 FindIndex(references,
                     {r \in Range(references) : OptTrimLower(r.GenderNotes) = patientGender})
             bothGenderMatch ==
                 FindIndex(references,
                     {r \in Range(references) : OptTrimLower(r.GenderNotes) = Str(Both)})
             chosen == IF exactGenderMatch > 0 THEN references[exactGenderMatch]
                       ELSE IF bothGenderMatch > 0 THEN references[bothGenderMatch]
                       ELSE references[1]
         IN  [chosen EXCEPT !.id = 0]

selectBestGenderMatch(references, patientGender) ==
    IF Len(references) = 0 THEN Null
    ELSE LET exactGenderMatch ==
                 FindIndex(references,
                     {r \in Range(references) : OptTrimLower(r.GenderNotes) = patientGender})
             bothGenderMatch ==
                 FindIndex(references,
                     {r \in Range(references) : OptTrimLower(r.GenderNotes) = Str(Both)})
         IN  IF exactGenderMatch > 0 THEN references[exactGenderMatch]
             ELSE IF bothGenderMatch > 0 THEN references[bothGenderMatch]
             ELSE references[1]

\* the filter of numericRanges: the range has a digit and names neither
\* "negative" nor "positive"
IsNumericRange(ref) ==
    LET range == TextOrEmpty(ref.NormalRange)
    IN  /\ HasDigit(range)
        /\ ~includes(toLowerCase(range), Negative)
        /\ ~includes(toLowerCase(range), Positive)

\* allRefOptions: the entries of the keys, in the order of the keys
RefOptions(map, keys) ==
    ConcatAll([i \in 1..Len(keys) |->
        IF ~MapHas(map, keys[i]) THEN <<>>
        ELSE LET refs == MapGet(map, keys[i])
             IN  [j \in 1..Len(refs) |-> [key |-> keys[i], ref |-> refs[j]]]])

\* numericRanges.map(n => n.ref)
NumericRefs(options) ==
    LET numericRanges == SelectSeq(options, LAMBDA o : IsNumericRange(o.ref))
    IN  [i \in 1..Len(numericRanges) |-> numericRanges[i].ref]

\* The order of String.prototype.localeCompare on the characters of the
\* keys: blank, punctuation, digits, letters.
CollationOrder ==
    <<" ", "\t", "-", ",", ".", "(", ")", "/", "+">> \o Digits \o LowerCase

CollationRank(c) ==
    CHOOSE i \in DOMAIN CollationOrder : CollationOrder[i] = toLowerCaseChar(c)

RECURSIVE localeCompare(_, _)
\* a.localeCompare(b): negative, zero or positive
localeCompare(a, b) ==
    IF a = <<>> /\ b = <<>> THEN 0
    ELSE IF a = <<>> THEN 0 - 1
    ELSE IF b = <<>> THEN 1
    ELSE IF CollationRank(Head(a)) # CollationRank(Head(b))
         THEN CollationRank(Head(a)) - CollationRank(Head(b))
    ELSE localeCompare(Tail(a), Tail(b))

\* Array.prototype.sort(cmp), stable: each element in turn is put into the
\* sorted part, after the elements it does not precede; cmp is the comparator
\* as a function of the pair
Sort(arr, cmp) ==
    LET RECURSIVE Insert(_, _)
        Insert(sorted, x) ==
            IF sorted = <<>> THEN <<x>>
            ELSE IF cmp[<<x, Head(sorted)>>] < 0 THEN <<x>> \o sorted
            ELSE <<Head(sorted)>> \o Insert(Tail(sorted), x)
        RECURSIVE SortPrefix(_)
        SortPrefix(n) ==
            IF n = 0 THEN <<>> ELSE Insert(SortPrefix(n - 1), arr[n])
    IN  SortPrefix(Len(arr))

\* variant of CompareContains without its first priority
CompareContainsByLength(testName, a, b) ==
    IF Len(a) # Len(b) THEN Len(b) - Len(a) ELSE localeCompare(a, b)

\* the comparator of the contains matches (lines 139-152)
CompareContains(testName, a, b) ==
    LET aIsExactSubstring == includes(toLowerCase(testName), toLowerCase(a))
        bIsExactSubstring == includes(toLowerCase(testName), toLowerCase(b))
    IN  IF aIsExactSubstring /\ ~bIsExactSubstring THEN 0 - 1
        ELSE IF ~aIsExactSubstring /\ bIsExactSubstring THEN 1
        ELSE IF Len(a) # Len(b) THEN Len(b) - Len(a)
        ELSE localeCompare(a, b)

variations ==
    <<[test |-> <<<<"w", "b", "c">>,
                 <<"w", "h", "i", "t", "e", " ", "b", "l", "o", "o", "d", " ", "c", "e", "l", "l">>,
                 <<"w", "h", "i", "t", "e", " ", "b", "l", "o", "o", "d", " ", "c", "e", "l", "l", "s">>>>,
       ref  |-> <<<<"w", "b", "c">>,
                 <<"w", "h", "i", "t", "e", " ", "b", "l", "o", "o", "d", " ", "c", "e", "l", "l">>,
                 <<"w", "h", "i", "t", "e", " ", "b", "l", "o", "o", "d", " ", "c", "e", "l", "l", "s">>>>],
      [test |-> <<<<"a", "l", "b", "u", "m", "i", "n">>,
                 <<"a", "l", "b">>>>,
       ref  |-> <<<<"a", "l", "b", "u", "m", "i", "n">>,
                 <<"a", "l", "b">>>>],
      [test |-> <<<<"h", "e", "m", "o", "g", "l", "o", "b", "i", "n">>,
                 <<"h", "g", "b">>,
                 <<"h", "b">>>>,
       ref  |-> <<<<"h", "e", "m", "o", "g", "l", "o", "b", "i", "n">>,
                 <<"h", "g", "b">>,
                 <<"h", "b">>>>],
      [test |-> <<<<"p", "l", "a", "t", "e", "l", "e", "t">>,
                 <<"p", "l", "a", "t", "e", "l", "e", "t", "s">>,
                 <<"p", "l", "t">>>>,
       ref  |-> <<<<"p", "l", "a", "t", "e", "l", "e", "t">>,
                 <<"p", "l", "a", "t", "e", "l", "e", "t", "s">>,
                 <<"p", "l", "t">>>>],
      [test |-> <<<<"g", "l", "u", "c", "o", "s", "e">>,
                 <<"g", "l", "u">>>>,
       ref  |-> <<<<"g", "l", "u", "c", "o", "s", "e">>,
                 <<"g", "l", "u">>>>],
      [test |-> <<<<"a", "l", "t">>,
                 <<"s", "g", "p", "t">>,
                 <<"a", "l", "a", "n", "i", "n", "e", " ", "a", "m", "i", "n", "o", "t", "r", "a", "n", "s", "f", "e", "r", "a", "s", "e">>>>,
       ref  |-> <<<<"a", "l", "t">>,
                 <<"s", "g", "p", "t">>,
                 <<"a", "l", "a", "n", "i", "n", "e", " ", "a", "m", "i", "n", "o", "t", "r", "a", "n", "s", "f", "e", "r", "a", "s", "e">>>>],
      [test |-> <<<<"a", "s", "t">>,
                 <<"s", "g", "o", "t">>,
                 <<"a", "s", "p", "a", "r", "t", "a", "t", "e", " ", "a", "m", "i", "n", "o", "t", "r", "a", "n", "s", "f", "e", "r", "a", "s", "e">>>>,
       ref  |-> <<<<"a", "s", "t">>,
                 <<"s", "g", "o", "t">>,
                 <<"a", "s", "p", "a", "r", "t", "a", "t", "e", " ", "a", "m", "i", "n", "o", "t", "r", "a", "n", "s", "f", "e", "r", "a", "s", "e">>>>],
      [test |-> <<<<"a", "l", "k", "a", "l", "i", "n", "e", " ", "p", "h", "o", "s", "p", "h", "a", "t", "a", "s", "e">>,
                 <<"a", "l", "p">>>>,
       ref  |-> <<<<"a", "l", "k", "a", "l", "i", "n", "e", " ", "p", "h", "o", "s", "p", "h", "a", "t", "a", "s", "e">>,
                 <<"a", "l", "p">>>>]>>

\* variant of IsFuzzyMatch that takes the two synonyms from any two groups
IsFuzzyMatchAnyGroup(testLower, keyLower) ==
    /\ \E v \in 1..Len(variations) :
           \E t \in 1..Len(variations[v].test) : includes(testLower, variations[v].test[t])
    /\ \E v \in 1..Len(variations) :
           \E r \in 1..Len(variations[v].ref) : includes(keyLower, variations[v].ref[r])

\* the filter of fuzzyMatches (lines 229-232)
IsFuzzyMatch(testLower, keyLower) ==
    \E v \in 1..Len(variations) :
        /\ \E t \in 1..Len(variations[v].test) : includes(testLower, variations[v].test[t])
        /\ \E r \in 1..Len(variations[v].ref) : includes(keyLower, variations[v].ref[r])

\* variant of ExactRefOptions that leaves the exact match's own entries out
ExactRefOptionsAlternativesOnly(map, exactMatch, betterAlternatives) ==
    RefOptions(map, betterAlternatives)

\* allRefOptions of Strategy 1 (lines 59-73): the entries of the exact match,
\* then those of the better alternatives
ExactRefOptions(map, exactMatch, betterAlternatives) ==
    RefOptions(map, <<exactMatch>> \o betterAlternatives)

\* Strategy 1 once exactMatch is found (lines 30-128)
ExactStrategy(patientRow_, map, testName, patientGender, allKeys, exactMatch) ==
    LET testLower == toLowerCase(testName)
        isGlucose == testLower = Glucose \/ includes(testLower, Glucose)
        betterAlternatives ==
            SelectSeq(allKeys, LAMBDA key :
                includes(toLowerCase(key), testLower) /\ toLowerCase(key) # testLower)
        fastingMatch ==
            FindIndex(betterAlternatives,
                     {alt \in Range(betterAlternatives) : includes(toLowerCase(alt), Fasting)})
        allRefOptions == ExactRefOptions(map, exactMatch, betterAlternatives)
        numericRefs == NumericRefs(allRefOptions)
        patientValue == TextOrEmpty(patientRow_.LBORRES)
        isPatientValueNumeric == HasDigit(patientValue)
        fastingKey ==
            FindIndex(allKeys,
                     {key \in Range(allKeys) : includes(toLowerCase(key), Glucose) /\ includes(toLowerCase(key), Fasting)})
    IN  IF /\ Len(betterAlternatives) > 0
           /\ isGlucose
           /\ fastingMatch > 0
           /\ MapHas(map, betterAlternatives[fastingMatch])
        THEN selectBestGenderMatch(MapGet(map, betterAlternatives[fastingMatch]), patientGender)
        ELSE IF /\ Len(betterAlternatives) > 0
                /\ isPatientValueNumeric
                /\ Len(numericRefs) > 0
        THEN selectBestGenderMatch(numericRefs, patientGender)
        ELSE IF /\ isGlucose
                /\ isPatientValueNumeric
                /\ fastingKey > 0
                /\ allKeys[fastingKey] # exactMatch
                /\ MapHas(map, allKeys[fastingKey])
        THEN selectBestGenderMatch(MapGet(map, allKeys[fastingKey]), patientGender)
        ELSE selectBestGenderMatch(MapGet(map, exactMatch), patientGender)

\* variant of ContainsStrategy whose numeric preference stays with the best
\* match when that key has a numeric range
ContainsStrategyBestKeyFirst(patientRow_, map, testName, patientGender, containsMatches) ==
    LET sorted == Sort(containsMatches,
                       [p \in Range(containsMatches) \X Range(containsMatches) |->
                           CompareContains(testName, p[1], p[2])])
        bestMatch == sorted[1]
        bestNumericRefs == NumericRefs(RefOptions(map, <<bestMatch>>))
        numericRefs == NumericRefs(RefOptions(map, sorted))
        patientValue == TextOrEmpty(patientRow_.LBORRES)
        isPatientValueNumeric == HasDigit(patientValue)
    IN  IF /\ Len(sorted) > 1
           /\ isPatientValueNumeric
           /\ Len(numericRefs) > 0
        THEN IF Len(bestNumericRefs) > 0
             THEN selectBestGenderMatch(bestNumericRefs, patientGender)
             ELSE selectBestGenderMatch(numericRefs, patientGender)
        ELSE selectBestGenderMatch(MapGet(map, bestMatch), patientGender)

\* Strategy 2 once containsMatches is not empty (lines 137-202)
ContainsStrategy(patientRow_, map, testName, patientGender, containsMatches) ==
    LET sorted == Sort(containsMatches,
                       [p \in Range(containsMatches) \X Range(containsMatches) |->
                           CompareContains(testName, p[1], p[2])])
        bestMatch == sorted[1]
        numericRefs == NumericRefs(RefOptions(map, sorted))
        patientValue == TextOrEmpty(patientRow_.LBORRES)
        isPatientValueNumeric == HasDigit(patientValue)
    IN  IF /\ Len(sorted) > 1
           /\ isPatientValueNumeric
           /\ Len(numericRefs) > 0
        THEN selectBestGenderMatch(numericRefs, patientGender)
        ELSE selectBestGenderMatch(MapGet(map, bestMatch), patientGender)

\* variant of FuzzyStrategy that gives up
FuzzyStrategyNone(map, patientGender, fuzzyMatches) == Null

\* Strategy 3 once fuzzyMatches is not empty (lines 235-244)
FuzzyStrategy(map, patientGender, fuzzyMatches) ==
    LET sorted == Sort(fuzzyMatches,
                       [p \in Range(fuzzyMatches) \X Range(fuzzyMatches) |->
                           Len(p[2]) - Len(p[1])])
        bestMatch == sorted[1]
    IN  selectBestGenderMatch(MapGet(map, bestMatch), patientGender)

\* variant of findBestReferenceMatch that tries the synonyms before the substrings
findBestReferenceMatchFuzzyFirst(patientRow_, map) ==
    LET testNameV == OptTrim(patientRow_.LBTEST)
        patientGender == OptTrimLower(patientRow_.Gender)
    IN  IF testNameV = Undefined \/ testNameV.str = <<>> THEN Null
        ELSE
        LET testName == testNameV.str
            testLower == toLowerCase(testName)
            allKeys == MapKeys(map)
            exactMatch == FindIndex(allKeys,
                     {key \in Range(allKeys) : toLowerCase(key) = testLower})
            containsMatches ==
                SelectSeq(allKeys, LAMBDA key :
                    \/ includes(testLower, toLowerCase(key))
                    \/ includes(toLowerCase(key), testLower))
            fuzzyMatches ==
                SelectSeq(allKeys, LAMBDA key : IsFuzzyMatch(testLower, toLowerCase(key)))
        IN  IF exactMatch > 0 /\ allKeys[exactMatch] # <<>>
            THEN ExactStrategy(patientRow_, map, testName, patientGender, allKeys,
                               allKeys[exactMatch])
            ELSE IF Len(fuzzyMatches) > 0
            THEN FuzzyStrategy(map, patientGender, fuzzyMatches)
            ELSE IF Len(containsMatches) > 0
            THEN ContainsStrategy(patientRow_, map, testName, patientGender, containsMatches)
            ELSE Null

\* variant of ReferenceMapAfter where the keys sorted are the map's own
ReferenceMapSortedInPlace(patientRow_, map) ==
    Sort(map, [p \in Range(map) \X Range(map) |-> Len(p[2].key) - Len(p[1].key)])

\* The reference map once findBestReferenceMatch has returned. The function
\* writes through no reference it was given: allKeys is a copy (Array.from,
\* line 21), both sorts (lines 139, 236) act on arrays that filter has just
\* built, and the pushes (lines 65, 71, 166) fill local arrays.
ReferenceMapAfter(patientRow_, map) == map

findBestReferenceMatch(patientRow_, map) ==
    LET testNameV == OptTrim(patientRow_.LBTEST)
        patientGender == OptTrimLower(patientRow_.Gender)
    IN  IF testNameV = Undefined \/ testNameV.str = <<>> THEN Null
        ELSE
        LET testName == testNameV.str
            testLower == toLowerCase(testName)
            allKeys == MapKeys(map)
            exactMatch == FindIndex(allKeys,
                     {key \in Range(allKeys) : toLowerCase(key) = testLower})
            containsMatches ==
                SelectSeq(allKeys, LAMBDA key :
                    \/ includes(testLower, toLowerCase(key))
                    \/ includes(toLowerCase(key), testLower))
            fuzzyMatches ==
                SelectSeq(allKeys, LAMBDA key : IsFuzzyMatch(testLower, toLowerCase(key)))
        IN  IF exactMatch > 0 /\ allKeys[exactMatch] # <<>>
            THEN ExactStrategy(patientRow_, map, testName, patientGender, allKeys,
                               allKeys[exactMatch])
            ELSE IF Len(containsMatches) > 0
            THEN ContainsStrategy(patientRow_, map, testName, patientGender, containsMatches)
            ELSE IF Len(fuzzyMatches) > 0
            THEN FuzzyStrategy(map, patientGender, fuzzyMatches)
            ELSE Null

(***************************************************************************)
(* The reference index (the forEach of the application's run handler)      *)
(***************************************************************************)
\* variant of AddReferenceRow that files the rows without key under the empty key
AddReferenceRowKeepEmpty(map, row) ==
    LET k == TextOrEmpty(OptTrimLower(row.Parameter))
    IN  IF ~MapHas(map, k)
        THEN Append(map, [key |-> k, refs |-> <<row>>])
        ELSE [i \in 1..Len(map) |->
                 IF map[i].key = k
                 THEN [map[i] EXCEPT !.refs = Append(@, row)]
                 ELSE map[i]]

\* one step of referenceData.forEach: the row is filed under its key
AddReferenceRow(map, row) ==
    LET key == OptTrimLower(row.Parameter)
    IN  IF key = Undefined \/ key.str = <<>> THEN map
        ELSE IF ~MapHas(map, key.str)
        THEN Append(map, [key |-> key.str, refs |-> <<row>>])
        ELSE [i \in 1..Len(map) |->
                 IF map[i].key = key.str
                 THEN [map[i] EXCEPT !.refs = Append(@, row)]
                 ELSE map[i]]

\* the number of rows filed in the map
RECURSIVE RowCount(_)
RowCount(map) == IF map = <<>> THEN 0 ELSE Len(Head(map).refs) + RowCount(Tail(map))

(***************************************************************************)
(* Inputs of the comparison helpers                                        *)
(***************************************************************************)
\* texts of the worked examples: "<100", "99.9", "100", "Negative"
LT100 == <<"<", "1", "0", "0">>
V99_9 == <<"9", "9", ".", "9">>
V100 == <<"1", "0", "0">>
TextNegative == <<"N", "e", "g", "a", "t", "i", "v", "e">>

\* the longest value text drawn character by character
MaxValueLen == 3

\* every string of at most n characters of the set chars
StringsUpTo(chars, n) == UNION {[1..k -> chars] : k \in 0..n}

ValueChars == {"1", "2", ".", "-", " "}

\* observation values as they stand in a sheet
ValueTexts ==
    {<<"+", "/", "-">>,
     <<"N", "e", "g", "a", "t", "i", "v", "e", " ", "+", "/", "-">>,
     <<" ", "+", "/", "-", " ">>,
     <<"n", "e", "g", "a", "t", "i", "v", "e">>,
     <<" ", "N", "E", "G", "A", "T", "I", "V", "E", " ">>,
     <<"P", "o", "s", "i", "t", "i", "v", "e">>,
     <<"+", "2">>,
     <<"x", "1">>,
     <<"1", ".", "5", "0">>,
     <<"9", "9", ".", "9">>,
     <<"1", "0", "0">>,
     <<"9", "9", ".", "9", " ", "m", "g">>,
     <<"1", "e", "1">>}

\* numeric cells of a sheet: 1, 1.5, 2, -1, 0.5, 100
NumberValues == {Num(1, 1), Num(15, 10), Num(2, 1), Num(0 - 1, 1), Num(5, 10), Num(100, 1)}

Values == {Str(s) : s \in StringsUpTo(ValueChars, MaxValueLen) \cup ValueTexts}
              \cup NumberValues

\* the numbers written in the range texts
BoundTexts ==
    {<<"1">>,
     <<"2">>,
     <<"1", ".", "5">>,
     <<"-", "1">>,
     <<".", "5">>}

IntervalTexts ==
    {a \o sep \o b : a \in BoundTexts, b \in BoundTexts, sep \in {<<"-">>, <<" ", "-", " ">>}}

ThresholdTexts ==
    {op \o sp \o b : op \in {<<"<">>, <<"<", "=">>, <<">">>, <<">", "=">>},
                      sp \in {<<>>, <<" ">>}, b \in BoundTexts}

\* literal ranges, thresholds with separators, dashes and stray blanks
OtherTexts ==
    {<<"N", "e", "g", "a", "t", "i", "v", "e">>,
     <<" ", "n", "e", "g", "a", "t", "i", "v", "e", " ">>,
     <<"N", "E", "G", "A", "T", "I", "V", "E">>,
     <<"P", "o", "s", "i", "t", "i", "v", "e">>,
     <<"+", "/", "-">>,
     <<"N", "e", "g", "a", "t", "i", "v", "e", " ", "+", "/", "-">>,
     <<"1">>,
     <<"1", ".", "5", "0">>,
     <<"<", "1", "0", "0">>,
     <<"1", ",", "0", "0", "0", " ", "-", " ", "2", ",", "0", "0", "0">>,
     <<"<", "1", ",", "0", "0", "0">>,
     <<"1", EnDash, "2">>,
     <<"1", EmDash, "2">>,
     <<" ", "1", "-", "2">>,
     <<"1", "-", "2", " ">>,
     <<"1", "-">>,
     <<"=", "1">>,
     <<"<">>,
     <<>>}

ExpectedTexts == IntervalTexts \cup ThresholdTexts \cup OtherTexts

(***************************************************************************)
(* The comparison helpers as operations: each call records what it         *)
(* returned for the inputs drawn at the start.                             *)
(***************************************************************************)
NoRow == [LBTEST |-> Undefined, LBORRES |-> Undefined, Gender |-> Undefined]

InitCompare ==
    /\ RunIdle
    /\ value \in Values
    /\ expected \in ExpectedTexts
    /\ call = "none"
    /\ answer = FALSE
    /\ referenceMap = <<>>
    /\ entryList = <<>>
    /\ patientRow = NoRow
    /\ matched = Null

IsWithinRange ==
    /\ call = "none"
    /\ call' = "isWithinRange"
    /\ answer' = isWithinRange(value, expected)
    /\ UNCHANGED <<value, expected, resVars, runVars>>

MatchesThreshold ==
    /\ call = "none"
    /\ call' = "matchesThreshold"
    /\ answer' = matchesThreshold(value, expected)
    /\ UNCHANGED <<value, expected, resVars, runVars>>

MatchesString ==
    /\ call = "none"
    /\ call' = "matchesString"
    /\ answer' = matchesString(value, expected)
    /\ UNCHANGED <<value, expected, resVars, runVars>>

NextCompare == IsWithinRange \/ MatchesThreshold \/ MatchesString

SpecCompare == InitCompare /\ [][NextCompare]_vars

(***************************************************************************)
(* Inputs of the reference matcher                                         *)
(***************************************************************************)
\* the number of rows of a reference sheet
MaxRows == 3

\* the longest entry list handed to selectBestGenderMatch on its own
MaxRefs == 3

TextMale == <<"M", "a", "l", "e">>
TextFemale == <<"F", "e", "m", "a", "l", "e">>
TextBoth == <<"B", "o", "t", "h">>
TextMaleLoose == <<" ", "m", "a", "l", "e", " ">>
TextBothUpper == <<"B", "O", "T", "H">>
TextAdult == <<"A", "d", "u", "l", "t">>
TextRange70 == <<"7", "0", " ", "-", " ", "1", "0", "0">>
TextRange0 == <<"0", "-", "1", "5">>
TextNormal == <<"N", "o", "r", "m", "a", "l">>
TextNegLimit == <<"N", "e", "g", "a", "t", "i", "v", "e", " ", "(", "<", "5", ")">>
TextValue11 == <<"1", "1", ".", "0", "6">>
TextValueNeg == <<"N", "e", "g", "a", "t", "i", "v", "e">>
TextWBC == <<"W", "B", "C">>
TextWBCCount == <<"W", "B", "C", " ", "C", "o", "u", "n", "t">>
TextWBCTotal == <<"W", "B", "C", " ", "T", "o", "t", "a", "l">>
TextCount == <<"C", "o", "u", "n", "t">>
TextTotal == <<"T", "o", "t", "a", "l">>
TextWBCCountTotal == <<"W", "B", "C", " ", "C", "o", "u", "n", "t", " ", "T", "o", "t", "a", "l">>
TextWB == <<"W", "B">>
TextWBCT == <<" ", "w", "b", "c", " ", "t", " ">>
TextWhiteBloodCells == <<"W", "h", "i", "t", "e", " ", "B", "l", "o", "o", "d", " ", "C", "e", "l", "l", "s">>
TextHemoglobin == <<"H", "e", "m", "o", "g", "l", "o", "b", "i", "n">>
TextHb == <<"H", "b">>
TextAlbumin == <<"A", "l", "b", "u", "m", "i", "n">>
TextSGPT == <<"S", "G", "P", "T">>
TextHgb == <<"H", "g", "b">>
TextALT == <<"A", "L", "T">>
TextPlatelets == <<"P", "l", "a", "t", "e", "l", "e", "t", "s">>
TextTotalWBC == <<"T", "o", "t", "a", "l", " ", "W", "B", "C">>
TextGlucoseRandom == <<"G", "l", "u", "c", "o", "s", "e", " ", "(", "R", "a", "n", "d", "o", "m", ")">>
TextLeukocytes == <<"L", "e", "u", "k", "o", "c", "y", "t", "e", "s">>
TextBlank == <<" ", " ">>
TextWBCLoose == <<" ", "W", "B", "C", " ">>
TextWBCUpper == <<" ", "W", "B", "C", " ", " ">>
TextGlucose == <<"G", "l", "u", "c", "o", "s", "e">>
TextGlucoseFasting == <<"G", "l", "u", "c", "o", "s", "e", " ", "(", "F", "a", "s", "t", "i", "n", "g", ")">>
TextUrineGlucose == <<"U", "r", "i", "n", "e", " ", "G", "l", "u", "c", "o", "s", "e">>
TextUrineGlucoseRandom == <<"U", "r", "i", "n", "e", " ", "G", "l", "u", "c", "o", "s", "e", " ", "(", "R", "a", "n", "d", "o", "m", ")">>
TextGlucoseLoose == <<" ", "g", "l", "u", "c", "o", "s", "e", " ">>

\* the cells of a reference row and of a patient row
Cells(parameter, range, gender) ==
    [Parameter |-> parameter, NormalRange |-> range, GenderNotes |-> gender]

Patient(test, result, gender) ==
    [LBTEST |-> test, LBORRES |-> result, Gender |-> gender]

\* the row object made of the cells, the id-th of its sheet
Row(id, cells) ==
    [id |-> id, Parameter |-> cells.Parameter, NormalRange |-> cells.NormalRange,
     GenderNotes |-> cells.GenderNotes]

InitResolve ==
    /\ RunIdle
    /\ referenceMap = <<>>
    /\ entryList = <<>>
    /\ patientRow = NoRow
    /\ matched = Null
    /\ call = "none"
    /\ value = Str(<<>>)
    /\ expected = <<>>
    /\ answer = FALSE

\* referenceData.forEach(row => ...): the next row of the sheet is filed
LoadReferenceRow(cells) ==
    /\ call = "none"
    /\ RowCount(referenceMap) < MaxRows
    /\ referenceMap' = AddReferenceRow(referenceMap, Row(RowCount(referenceMap) + 1, cells))
    /\ UNCHANGED <<cmpVars, entryList, patientRow, matched, runVars>>

\* findBestReferenceMatch(pRow, referenceMap) for one patient row
FindBestReferenceMatch(pRow) ==
    /\ call = "none"
    /\ call' = "findBestReferenceMatch"
    /\ patientRow' = pRow
    /\ matched' = findBestReferenceMatch(pRow, referenceMap)
    /\ UNCHANGED <<value, expected, answer, referenceMap, entryList, runVars>>

(***************************************************************************)
(* selectBestGenderMatch on its own: any entry list, the empty one too     *)
(***************************************************************************)
GenderCells ==
    {Str(TextMale), Str(TextFemale), Str(TextBoth), Str(TextMaleLoose),
     Str(TextBothUpper), Str(TextAdult), Undefined}

PatientGenders ==
    {Str(TextMale), Str(TextFemale), Str(TextMaleLoose), Str(TextBoth), Str(TextAdult),
     Undefined}

EntryLists ==
    UNION {{[i \in 1..n |-> Row(i, Cells(Str(TextGlucose), Str(TextRange70), g[i]))] :
               g \in [1..n -> GenderCells]} : n \in 0..MaxRefs}

InitGender ==
    /\ RunIdle
    /\ entryList \in EntryLists
    /\ patientRow \in {Patient(Str(TextGlucose), Str(TextValue11), g) : g \in PatientGenders}
    /\ referenceMap = <<>>
    /\ matched = Null
    /\ call = "none"
    /\ value = Str(<<>>)
    /\ expected = <<>>
    /\ answer = FALSE

SelectBestGenderMatch ==
    /\ call = "none"
    /\ call' = "selectBestGenderMatch"
    /\ matched' = selectBestGenderMatch(entryList, OptTrimLower(patientRow.Gender))
    /\ UNCHANGED <<value, expected, answer, referenceMap, entryList, patientRow, runVars>>

NextGender == SelectBestGenderMatch

SpecGender == InitGender /\ [][NextGender]_vars

(***************************************************************************)
(* Sheets and patients around the glucose rule                             *)
(***************************************************************************)
GlucoseSheet ==
    {Cells(Str(p), Str(r), Str(TextBoth)) :
        p \in {TextGlucose, TextGlucoseFasting, TextUrineGlucose, TextUrineGlucoseRandom},
        r \in {TextRange70, TextValueNeg}}
    \cup {Cells(Str(TextGlucoseFasting), Str(TextRange0), Str(TextMale)),
          Cells(Str(TextGlucose), Str(TextRange0), Str(TextMale))}

GlucosePatients ==
    {Patient(Str(t), v, Str(g)) :
        t \in {TextGlucose, TextGlucoseLoose, TextUrineGlucose, TextGlucoseFasting},
        v \in {Str(TextValue11), Str(TextValueNeg)},
        g \in {TextMale, TextFemale}}

NextGlucose ==
    \/ \E cells \in GlucoseSheet : LoadReferenceRow(cells)
    \/ \E pRow \in GlucosePatients : FindBestReferenceMatch(pRow)

SpecGlucose == InitResolve /\ [][NextGlucose]_vars

(***************************************************************************)
(* Sheets and patients around the numeric preference of Strategy 1         *)
(***************************************************************************)
OverrideSheet ==
    {Cells(Str(p), Str(r), Str(g)) :
        p \in {TextWBC, TextWBCCount},
        r \in {TextRange70, TextNegLimit},
        g \in {TextMale, TextBoth}}
    \cup {Cells(Str(TextGlucose), Str(TextValueNeg), Str(TextBoth)),
          Cells(Str(TextGlucoseFasting), Str(TextValueNeg), Str(TextBoth)),
          Cells(Str(TextGlucoseFasting), Str(TextRange70), Str(TextMale))}

OverridePatients ==
    {Patient(Str(t), v, Str(g)) :
        t \in {TextWBC, TextGlucose},
        v \in {Str(TextValue11), Num(5, 1), Str(TextValueNeg)},
        g \in {TextMale, TextFemale}}

NextOverride ==
    \/ \E cells \in OverrideSheet : LoadReferenceRow(cells)
    \/ \E pRow \in OverridePatients : FindBestReferenceMatch(pRow)

SpecOverride == InitResolve /\ [][NextOverride]_vars

(***************************************************************************)
(* Sheets and patients of Strategy 2 (no key equals the test name)         *)
(***************************************************************************)
ContainsSheet ==
    {Cells(Str(p), Str(r), Str(TextBoth)) :
        p \in {TextWBC, TextWBCCount, TextWBCTotal, TextCount, TextTotal},
        r \in {TextRange70, TextNormal}}
    \cup {Cells(Str(TextWBCTotal), Str(TextRange0), Str(TextMale)),
          Cells(Str(TextCount), Str(TextNormal), Str(TextMale))}

ContainsPatients ==
    {Patient(Str(t), Str(v), Str(g)) :
        t \in {TextWBCCountTotal, TextWB, TextWBCT},
        v \in {TextValue11, TextValueNeg},
        g \in {TextMale, TextFemale}}

NextContains ==
    \/ \E cells \in ContainsSheet : LoadReferenceRow(cells)
    \/ \E pRow \in ContainsPatients : FindBestReferenceMatch(pRow)

SpecContains == InitResolve /\ [][NextContains]_vars

(***************************************************************************)
(* Sheets and patients of Strategy 3 (no key equals, holds or is held by   *)
(* the test name)                                                          *)
(***************************************************************************)
FuzzySheet ==
    {Cells(Str(p), Str(r), Str(TextBoth)) :
        p \in {TextWhiteBloodCells, TextHemoglobin, TextHb, TextAlbumin, TextSGPT},
        r \in {TextRange70, TextNormal}}
    \cup {Cells(Str(TextHemoglobin), Str(TextRange0), Str(TextMale)),
          Cells(Str(TextHb), Str(TextRange0), Str(TextFemale))}

FuzzyPatients ==
    {Patient(Str(t), Str(TextValue11), Str(g)) :
        t \in {TextWBC, TextHgb, TextALT, TextPlatelets},
        g \in {TextMale, TextFemale}}

NextFuzzy ==
    \/ \E cells \in FuzzySheet : LoadReferenceRow(cells)
    \/ \E pRow \in FuzzyPatients : FindBestReferenceMatch(pRow)

SpecFuzzy == InitResolve /\ [][NextFuzzy]_vars

(***************************************************************************)
(* Sheets and patients across the three strategies                         *)
(***************************************************************************)
StrategySheet ==
    {Cells(Str(p), Str(r), Str(TextBoth)) :
        p \in {TextWBCCount, TextWBC, TextWhiteBloodCells, TextAlbumin,
               TextGlucoseRandom, TextGlucoseFasting},
        r \in {TextRange70, TextNormal}}

StrategyPatients ==
    {Patient(Str(t), Str(v), Str(TextMale)) :
        t \in {TextWBCCount, TextTotalWBC, TextGlucoseRandom, TextLeukocytes},
        v \in {TextValue11, TextValueNeg}}

NextStrategy ==
    \/ \E cells \in StrategySheet : LoadReferenceRow(cells)
    \/ \E pRow \in StrategyPatients : FindBestReferenceMatch(pRow)

SpecStrategy == InitResolve /\ [][NextStrategy]_vars

(***************************************************************************)
(* Sheets and patients with missing cells                                  *)
(***************************************************************************)
MissingSheet ==
    {Cells(Str(p), Str(r), Str(TextBoth)) :
        p \in {TextWBCCount, TextWhiteBloodCells, TextHemoglobin},
        r \in {TextRange70, TextNormal}}
    \cup {Cells(Str(TextHemoglobin), Str(TextRange0), Str(TextMale)),
          Cells(Str(TextHemoglobin), Str(TextRange0), Undefined)}

MissingPatients ==
    {Patient(t, Str(TextValue11), g) :
        t \in {Undefined, Null, Str(<<>>), Str(TextBlank), Num(5, 1), Str(TextWBCLoose),
               Str(TextHgb), Str(TextHemoglobin), Str(TextLeukocytes)},
        g \in {Undefined, Null, Str(TextMale)}}

NextMissing ==
    \/ \E cells \in MissingSheet : LoadReferenceRow(cells)
    \/ \E pRow \in MissingPatients : FindBestReferenceMatch(pRow)

SpecMissing == InitResolve /\ [][NextMissing]_vars

(***************************************************************************)
(* Lookups one after the other on an index built once                      *)
(***************************************************************************)
LookupSheet ==
    {Cells(Str(p), Str(r), Str(TextBoth)) :
        p \in {TextWBC, TextWBCCount, TextHemoglobin},
        r \in {TextRange70, TextNormal}}

LookupPatients ==
    {Patient(Str(t), Str(TextValue11), Str(TextMale)) :
        t \in {TextWBC, TextTotalWBC, TextHgb, TextLeukocytes}}

\* findBestReferenceMatch(pRow, referenceMap), any number of times
Lookup(pRow) ==
    /\ referenceMap # <<>>
    /\ call' = "findBestReferenceMatch"
    /\ patientRow' = pRow
    /\ matched' = findBestReferenceMatch(pRow, referenceMap)
    /\ referenceMap' = ReferenceMapAfter(pRow, referenceMap)
    /\ lookups' = lookups \cup {[row |-> pRow, ref |-> matched']}
    /\ UNCHANGED <<value, expected, answer, entryList, ingested, provider, patientRows, pc,
                   batchStart, retryCount, results, processedCount, progressCalls, submitted,
                   attempts, lastAnswer>>

NextLookup ==
    \/ \E cells \in LookupSheet : LoadReferenceRow(cells)
    \/ \E pRow \in LookupPatients : Lookup(pRow)

SpecLookup == InitResolve /\ [][NextLookup]_vars

(***************************************************************************)
(* extractNumericValue and parseRange on their own                         *)
(***************************************************************************)
TextCells8187 == <<"8", "1", "8", "7", ".", "7", " ", "c", "e", "l", "l", "s", "/", "m", "m", "3">>
TextCellsFirst == <<"c", "e", "l", "l", "s", " ", "8", "1", "8", "7", ".", "7">>
Text8187Loose == <<" ", "8", "1", "8", "7", ".", "7">>
Text8187 == <<"8", "1", "8", "7", ".", "7">>

ExtractTexts ==
    {TextCells8187, TextCellsFirst, Text8187Loose, Text8187,
     <<"+", "2">>, <<"x", "1">>, <<"1", ".", "5", "0">>, <<"1", ".", "5", ".", "2">>,
     <<"-", ".", "5", " ", "m", "g">>, <<"\t", "7">>, <<"7", " ">>}

ExtractValues ==
    {Str(t) : t \in StringsUpTo(ValueChars, MaxValueLen) \cup ExtractTexts} \cup NumberValues

InitExtract ==
    /\ RunIdle
    /\ value \in ExtractValues
    /\ expected = <<>>
    /\ call = "none"
    /\ answer = FALSE
    /\ referenceMap = <<>>
    /\ entryList = <<>>
    /\ patientRow = NoRow
    /\ matched = Null

ExtractNumericValue ==
    /\ call = "none"
    /\ call' = "extractNumericValue"
    /\ answer' = extractNumericValue(value)
    /\ UNCHANGED <<value, expected, resVars, runVars>>

NextExtract == ExtractNumericValue

SpecExtract == InitExtract /\ [][NextExtract]_vars

\* the numbers written in the range texts, and what stands between them
RangeBoundTexts ==
    {<<"4", ",", "0", "0", "0">>, <<"1", "1", ",", "0", "0", "0">>, <<"1", "3", ".", "8">>, <<"1", "7", ".", "2">>, <<"1">>, <<"-", "1">>, <<".", "5">>, <<"x">>}

RangeSeparators ==
    {<<"-">>, <<" ", "-", " ">>, <<EnDash>>, <<" ", EnDash, " ">>,
     <<EmDash>>, <<" ", EmDash, " ">>, <<",", "-">>, <<" ">>}

RangeTexts == {a \o sep \o b : a \in RangeBoundTexts, sep \in RangeSeparators, b \in RangeBoundTexts}

InitParse ==
    /\ RunIdle
    /\ value = Str(<<>>)
    /\ expected \in RangeTexts
    /\ call = "none"
    /\ answer = FALSE
    /\ referenceMap = <<>>
    /\ entryList = <<>>
    /\ patientRow = NoRow
    /\ matched = Null

ParseRange ==
    /\ call = "none"
    /\ call' = "parseRange"
    /\ answer' = parseRange(expected)
    /\ UNCHANGED <<value, expected, resVars, runVars>>

NextParse == ParseRange

SpecParse == InitParse /\ [][NextParse]_vars

(***************************************************************************)
(* The reference sheet gone through row by row                             *)
(***************************************************************************)
IngestSheet ==
    {Cells(p, Str(TextRange70), g) :
        p \in {Undefined, Null, Str(<<>>), Str(TextBlank), Str(TextWBC), Str(TextWBCUpper),
               Str(TextHgb), Num(5, 1)},
        g \in {Str(TextBoth), Str(TextMale)}}

\* referenceData.forEach(row => ...): the next row of the sheet, filed or
\* skipped
IngestReferenceRow(cells) ==
    /\ call = "none"
    /\ Len(ingested) < MaxRows
    /\ ingested' = Append(ingested, Row(Len(ingested) + 1, cells))
    /\ referenceMap' = AddReferenceRow(referenceMap, Row(Len(ingested) + 1, cells))
    /\ UNCHANGED <<cmpVars, entryList, patientRow, matched, lookups, provider, patientRows,
                   pc, batchStart, retryCount, results, processedCount, progressCalls,
                   submitted, attempts, lastAnswer>>

NextIngest == \E cells \in IngestSheet : IngestReferenceRow(cells)

SpecIngest == InitResolve /\ [][NextIngest]_vars

(***************************************************************************)
(* The bulk runs: getBulkComparisonStatus (src/unnamed/part_001) and       *)
(* getGroqBulkComparisonStatus (src/services/groqService.ts)               *)
(***************************************************************************)
StatusMatched == Str(<<"M", "a", "t", "c", "h", "e", "d">>)
StatusUnmatched == Str(<<"U", "n", "m", "a", "t", "c", "h", "e", "d">>)
StatusNotFound == Str(<<"N", "o", "t", " ", "F", "o", "u", "n", "d">>)
StatusError == Str(<<"E", "r", "r", "o", "r">>)
StatusPending == Str(<<"P", "e", "n", "d", "i", "n", "g">>)

\* CONFIG.MAX_RETRIES and GROQ_CONFIG.MAX_RETRIES
MAX_RETRIES == 5

\* CONFIG.BATCH_SIZE (15) and GROQ_CONFIG.BATCH_SIZE (5), scaled down
BatchSize == 2

\* patientRows.slice(i, i + BATCH_SIZE)
Slice(rows, from, to) ==
    SubSeq(rows, from + 1, IF to < Len(rows) THEN to ELSE Len(rows))

\* rows.map(pRow => ({ row: pRow, status: 'Error' }))
ErrorResults(rows) ==
    [b \in 1..Len(rows) |->
        [row |-> rows[b], status |-> StatusError, requiredValue |-> Undefined]]

\* variant of MapResults that trusts the classifier only where a reference
\* was found
MapResultsChecked(batch, map, startIndex, comparisons) ==
    [b \in 1..Len(batch) |->
        LET c == FindIndex(comparisons,
                     {x \in Range(comparisons) : x.index = startIndex + b - 1})
        IN  IF c = 0
            THEN [row |-> batch[b], status |-> StatusError, requiredValue |-> Undefined]
            ELSE IF findBestReferenceMatch(batch[b], map) = Null
            THEN [row |-> batch[b], status |-> StatusNotFound, requiredValue |-> Undefined]
            ELSE [row |-> batch[b], status |-> comparisons[c].status,
                  requiredValue |-> comparisons[c].requiredValue]]

\* variant of MapResults that looks for the position of the row in its batch
MapResultsByPosition(batch, map, startIndex, comparisons) ==
    [b \in 1..Len(batch) |->
        LET c == FindIndex(comparisons,
                     {x \in Range(comparisons) : x.index = b - 1})
        IN  IF c = 0
            THEN [row |-> batch[b], status |-> StatusError, requiredValue |-> Undefined]
            ELSE [row |-> batch[b], status |-> comparisons[c].status,
                  requiredValue |-> comparisons[c].requiredValue]]

\* The end of processBatch and of processGroqBatch, "Map results back to
\* patient rows": batchData holds, for the b-th row of the batch, the index
\* startIndex + b - 1, the row and the reference findBestReferenceMatch gave
\* for it (which only the prompt uses).
MapResults(batch, map, startIndex, comparisons) ==
    [b \in 1..Len(batch) |->
        LET item == [index |-> startIndex + b - 1,
                     patientData |-> batch[b],
                     referenceData |-> findBestReferenceMatch(batch[b], map)]
            c == FindIndex(comparisons,
                     {x \in Range(comparisons) : x.index = item.index})
        IN  IF c = 0
            THEN [row |-> item.patientData, status |-> StatusError,
                  requiredValue |-> Undefined]
            ELSE [row |-> item.patientData, status |-> comparisons[c].status,
                  requiredValue |-> comparisons[c].requiredValue]]

\* what the classifier may say of one row: a status and, or not, a
\* requiredValue.  Gemini answers within bulkResponseSchema (status one of
\* the enum, requiredValue optional); Groq's answer is any JSON.
GeminiAnswers ==
    {[status |-> StatusMatched, requiredValue |-> Undefined],
     [status |-> StatusMatched, requiredValue |-> Str(TextRange70)],
     [status |-> StatusUnmatched, requiredValue |-> Undefined],
     [status |-> StatusUnmatched, requiredValue |-> Str(TextRange70)],
     [status |-> StatusNotFound, requiredValue |-> Undefined]}

GroqAnswers ==
    GeminiAnswers \cup {[status |-> StatusPending, requiredValue |-> Undefined],
                        [status |-> Undefined, requiredValue |-> Undefined]}

Answers(p) == IF p = "gemini" THEN GeminiAnswers ELSE GroqAnswers

\* the comparisons arrays of the model: for each row index from lo to hi
\* either no entry or one entry, in the order of the indices
ComparisonsFor(lo, hi, answers) ==
    {SelectSeq([k \in 1..(hi - lo + 1) |->
                   IF f[lo + k - 1] = Undefined THEN Undefined
                   ELSE [index |-> lo + k - 1, status |-> f[lo + k - 1].status,
                         requiredValue |-> f[lo + k - 1].requiredValue]],
               LAMBDA e : e # Undefined) :
        f \in [lo..hi -> answers \cup {Undefined}]}

\* the errors processBatch may throw, as the catch clauses tell them apart
ErrorKinds(p) == IF p = "gemini" THEN {"daily", "minute", "other"} ELSE {"rate", "other"}

\* a patient row, the id-th of its sheet
PatientAt(id, cells) ==
    [id |-> id, LBTEST |-> cells.LBTEST, LBORRES |-> cells.LBORRES, Gender |-> cells.Gender]

RunReferenceRows ==
    <<Row(1, Cells(Str(TextWBC), Str(TextRange70), Str(TextBoth))),
      Row(2, Cells(Str(TextHemoglobin), Str(TextRange0), Str(TextMale)))>>

RunReferenceMap ==
    AddReferenceRow(AddReferenceRow(<<>>, RunReferenceRows[1]), RunReferenceRows[2])

\* patient sheets of BatchSize + 1 rows (two batches): rows with a reference
\* (WBC) and rows without (Leukocytes), all of a kind or alternating
RunSheets ==
    {[k \in 1..(BatchSize + 1) |->
         PatientAt(k, Patient(Str(IF known[k % 2] THEN TextWBC ELSE TextLeukocytes),
                              Str(TextValue11), Str(TextMale)))] :
        known \in [{0, 1} -> BOOLEAN]}

InitRun ==
    /\ value = Str(<<>>)
    /\ expected = <<>>
    /\ call = "none"
    /\ answer = FALSE
    /\ referenceMap = RunReferenceMap
    /\ ingested = RunReferenceRows
    /\ entryList = <<>>
    /\ patientRow = NoRow
    /\ matched = Null
    /\ lookups = {}
    /\ provider \in {"gemini", "groq"}
    /\ patientRows \in RunSheets
    /\ pc = "idle"
    /\ batchStart = 0
    /\ retryCount = 0
    /\ results = <<>>
    /\ processedCount = 0
    /\ progressCalls = <<>>
    /\ submitted = {}
    /\ attempts = NoAttempt
    /\ lastAnswer = NoAnswer

runFrame == <<cmpVars, resVars, lookups, ingested, provider, patientRows>>

\* the call of the bulk run up to its for loop
StartRun ==
    /\ pc = "idle"
    /\ pc' = IF Len(patientRows) > 0 THEN "loop" ELSE "returned"
    /\ UNCHANGED <<runFrame, batchStart, retryCount, results, processedCount,
                   progressCalls, submitted, attempts, lastAnswer>>

\* getGroqBulkComparisonStatus without GROQ_API_KEY
StartRunWithoutKey ==
    /\ pc = "idle"
    /\ provider = "groq"
    /\ pc' = "threw"
    /\ UNCHANGED <<runFrame, batchStart, retryCount, results, processedCount,
                   progressCalls, submitted, attempts, lastAnswer>>

\* variant of FinishBatch that counts a whole batch whatever the length of
\* the last one
FinishBatchCountsFullBatch(batchResults) ==
    /\ results' = results \o batchResults
    /\ processedCount' = processedCount + BatchSize
    /\ progressCalls' = Append(progressCalls,
                               [processed |-> processedCount', total |-> Len(patientRows)])
    /\ batchStart' = batchStart + BatchSize
    /\ retryCount' = 0
    /\ pc' = IF batchStart + BatchSize < Len(patientRows) THEN "loop" ELSE "returned"

\* the rest of the for loop's body once batchResults is set: the results are
\* pushed, the progress is reported, and the loop goes on or ends
FinishBatch(batchResults) ==
    /\ results' = results \o batchResults
    /\ processedCount' = processedCount + Len(Slice(patientRows, batchStart, batchStart + BatchSize))
    /\ progressCalls' = Append(progressCalls,
                               [processed |-> processedCount', total |-> Len(patientRows)])
    /\ batchStart' = batchStart + BatchSize
    /\ retryCount' = 0
    /\ pc' = IF batchStart + BatchSize < Len(patientRows) THEN "loop" ELSE "returned"

\* one more call of processBatch for the batch at batchStart, failed or not
AttemptsAfter(hasFailed) ==
    IF attempts.startIndex = batchStart
    THEN [attempts EXCEPT !.count = @ + 1, !.failed = @ + (IF hasFailed THEN 1 ELSE 0)]
    ELSE [startIndex |-> batchStart, count |-> 1, failed |-> IF hasFailed THEN 1 ELSE 0]

\* processBatch returns: the classifier has answered with comparisons
BatchAnswered(comparisons) ==
    /\ pc = "loop"
    /\ attempts' = AttemptsAfter(FALSE)
    /\ lastAnswer' = [startIndex |-> batchStart, comparisons |-> comparisons]
    /\ submitted' = submitted \cup (batchStart..(batchStart + Len(Slice(patientRows, batchStart, batchStart + BatchSize)) - 1))
    /\ FinishBatch(MapResults(Slice(patientRows, batchStart, batchStart + BatchSize),
                              referenceMap, batchStart, comparisons))
    /\ UNCHANGED runFrame

\* variant of BatchFailed that gives up the whole run once the retries of a
\* batch are used up
BatchFailedGivesUp(kind) ==
    /\ pc = "loop"
    /\ attempts' = AttemptsAfter(TRUE)
    /\ UNCHANGED lastAnswer
    /\ submitted' = submitted \cup (batchStart..(batchStart + Len(Slice(patientRows, batchStart, batchStart + BatchSize)) - 1))
    /\ IF retryCount + 1 >= MAX_RETRIES \/ (provider = "gemini" /\ kind = "daily")
       THEN /\ results' = results \o ErrorResults(Slice(patientRows, batchStart, Len(patientRows)))
            /\ pc' = IF provider = "gemini" /\ kind = "daily" THEN "returnedEarly" ELSE "returned"
            /\ retryCount' = retryCount + 1
            /\ UNCHANGED <<batchStart, processedCount, progressCalls>>
       ELSE /\ retryCount' = retryCount + 1
            /\ UNCHANGED <<pc, batchStart, results, processedCount, progressCalls>>
    /\ UNCHANGED runFrame

\* variant of BatchFailed whose daily quota return marks the rows of the
\* failed batch only
BatchFailedMarksBatchOnly(kind) ==
    /\ pc = "loop"
    /\ attempts' = AttemptsAfter(TRUE)
    /\ UNCHANGED lastAnswer
    /\ submitted' = submitted \cup (batchStart..(batchStart + Len(Slice(patientRows, batchStart, batchStart + BatchSize)) - 1))
    /\ IF provider = "gemini" /\ kind = "daily"
       THEN /\ results' = results \o ErrorResults(Slice(patientRows, batchStart, batchStart + BatchSize))
            /\ pc' = "returnedEarly"
            /\ retryCount' = retryCount + 1
            /\ UNCHANGED <<batchStart, processedCount, progressCalls>>
       ELSE IF retryCount + 1 >= MAX_RETRIES
       THEN FinishBatch(ErrorResults(Slice(patientRows, batchStart, batchStart + BatchSize)))
       ELSE /\ retryCount' = retryCount + 1
            /\ UNCHANGED <<pc, batchStart, results, processedCount, progressCalls>>
    /\ UNCHANGED runFrame

\* variant of BatchFailed that allows one call more before it gives the
\* batch up
BatchFailedOneMoreCall(kind) ==
    /\ pc = "loop"
    /\ attempts' = AttemptsAfter(TRUE)
    /\ UNCHANGED lastAnswer
    /\ submitted' = submitted \cup (batchStart..(batchStart + Len(Slice(patientRows, batchStart, batchStart + BatchSize)) - 1))
    /\ IF provider = "gemini" /\ kind = "daily"
       THEN /\ results' = results \o ErrorResults(Slice(patientRows, batchStart, Len(patientRows)))
            /\ pc' = "returnedEarly"
            /\ retryCount' = retryCount + 1
            /\ UNCHANGED <<batchStart, processedCount, progressCalls>>
       ELSE IF retryCount + 1 > MAX_RETRIES
       THEN FinishBatch(ErrorResults(Slice(patientRows, batchStart, batchStart + BatchSize)))
       ELSE /\ retryCount' = retryCount + 1
            /\ UNCHANGED <<pc, batchStart, results, processedCount, progressCalls>>
    /\ UNCHANGED runFrame

\* processBatch throws (the request fails, or its answer is no JSON with a
\* comparisons array): the catch clause of the retry loop
BatchFailed(kind) ==
    /\ pc = "loop"
    /\ attempts' = AttemptsAfter(TRUE)
    /\ UNCHANGED lastAnswer
    /\ submitted' = submitted \cup (batchStart..(batchStart + Len(Slice(patientRows, batchStart, batchStart + BatchSize)) - 1))
    /\ IF provider = "gemini" /\ kind = "daily"
       THEN /\ results' = results \o ErrorResults(Slice(patientRows, batchStart, Len(patientRows)))
            /\ pc' = "returnedEarly"
            /\ retryCount' = retryCount + 1
            /\ UNCHANGED <<batchStart, processedCount, progressCalls>>
       ELSE IF retryCount + 1 >= MAX_RETRIES
       THEN FinishBatch(ErrorResults(Slice(patientRows, batchStart, batchStart + BatchSize)))
       ELSE /\ retryCount' = retryCount + 1
            /\ UNCHANGED <<pc, batchStart, results, processedCount, progressCalls>>
    /\ UNCHANGED runFrame

NextRun ==
    \/ StartRun
    \/ StartRunWithoutKey
    \/ \E comparisons \in ComparisonsFor(batchStart,
                              batchStart + Len(Slice(patientRows, batchStart, batchStart + BatchSize)) - 1,
                              Answers(provider)) : BatchAnswered(comparisons)
    \/ \E kind \in ErrorKinds(provider) : BatchFailed(kind)

SpecRun == InitRun /\ [][NextRun]_vars

(***************************************************************************)
(* The classifier's answers in any shape: entries in any order, several    *)
(* for one index, none for another, indices of other batches or of no row  *)
(***************************************************************************)
AnswerSheet ==
    [k \in 1..(BatchSize + 1) |->
        PatientAt(k, Patient(Str(TextWBC), Str(TextValue11), Str(TextMale)))]

AnswerKinds ==
    {[status |-> StatusMatched, requiredValue |-> Undefined],
     [status |-> StatusUnmatched, requiredValue |-> Str(TextRange70)]}

\* the comparisons arrays of at most BatchSize entries whose index is that
\* of any of the rowCount rows, of the batch submitted or of another
ComparisonsAnyOrder(rowCount) ==
    UNION {[1..k -> {[index |-> i, status |-> a.status, requiredValue |-> a.requiredValue] :
                        i \in 0..(rowCount - 1), a \in AnswerKinds}] : k \in 0..BatchSize}

InitAnswers ==
    /\ value = Str(<<>>)
    /\ expected = <<>>
    /\ call = "none"
    /\ answer = FALSE
    /\ referenceMap = RunReferenceMap
    /\ ingested = RunReferenceRows
    /\ entryList = <<>>
    /\ patientRow = NoRow
    /\ matched = Null
    /\ lookups = {}
    /\ provider \in {"gemini", "groq"}
    /\ patientRows = AnswerSheet
    /\ pc = "idle"
    /\ batchStart = 0
    /\ retryCount = 0
    /\ results = <<>>
    /\ processedCount = 0
    /\ progressCalls = <<>>
    /\ submitted = {}
    /\ attempts = NoAttempt
    /\ lastAnswer = NoAnswer

NextAnswers ==
    \/ StartRun
    \/ \E comparisons \in ComparisonsAnyOrder(Len(patientRows)) : BatchAnswered(comparisons)

SpecAnswers == InitAnswers /\ [][NextAnswers]_vars

(***************************************************************************)
(* The bulk run when every call of processBatch and every delay returns:   *)
(* every pattern of answers and failures, and a step of the run that can   *)
(* be taken is taken in the end                                            *)
(***************************************************************************)
NextRetry ==
    \/ StartRun
    \/ StartRunWithoutKey
    \/ \E kind \in ErrorKinds(provider) : BatchFailed(kind)
    \/ \E comparisons \in ComparisonsFor(batchStart,
                              batchStart + Len(Slice(patientRows, batchStart, batchStart + BatchSize)) - 1,
                              AnswerKinds) : BatchAnswered(comparisons)

SpecRetry == InitAnswers /\ [][NextRetry]_vars /\ WF_vars(NextRetry)

(***************************************************************************)
(* Properties of the comparison helpers                                    *)
(***************************************************************************)
\* The leading numeric token of a value: the longest prefix of its text
\* that reads as optional sign, digits, optional decimal point, digits; a
\* numeric value is its own token.
NumericPrefixLengths(s) == {n \in 1..Len(s) : MatchesNumPattern(SubSeq(s, 1, n))}

HasLeadingNumber(v) == v.type = "number" \/ NumericPrefixLengths(v.str) # {}

LeadingNumber(v) ==
    IF v.type = "number" THEN v
    ELSE LET ns == NumericPrefixLengths(v.str)
             n  == CHOOSE x \in ns : \A y \in ns : y <= x
         IN  parseFloat(SubSeq(v.str, 1, n))

\* C1: for a range text that parses as an interval [min, max], isWithinRange
\* answers true exactly when the value has a leading numeric token v with
\* min <= v <= max (both ends included); without such a token it answers false.
IntervalEvaluation ==
    (call = "isWithinRange" /\ parseRange(expected) # Null) =>
        LET r == parseRange(expected)
        IN  answer = (/\ HasLeadingNumber(value)
                      /\ NumLe(r.min, LeadingNumber(value))
                      /\ NumLe(LeadingNumber(value), r.max))

\* C1 witness: a value text sitting on the lower end of a proper interval is
\* found within range.
IntervalLowerEndReached ==
    /\ call = "isWithinRange"
    /\ parseRange(expected) # Null
    /\ value.type = "string"
    /\ HasLeadingNumber(value)
    /\ NumLe(LeadingNumber(value), parseRange(expected).min)
    /\ NumGe(LeadingNumber(value), parseRange(expected).min)
    /\ NumLt(parseRange(expected).min, parseRange(expected).max)
    /\ answer = TRUE

\* The readings of a text as a threshold: an operator, blanks, a number.
ThresholdOperators == {<<"<">>, <<"<", "=">>, <<">">>, <<">", "=">>}

ThresholdReadings(t) ==
    {r \in [op : ThresholdOperators, k : 1..Len(t)] :
        /\ r.k > Len(r.op)
        /\ SubSeq(t, 1, Len(r.op)) = r.op
        /\ AllSpaces(t, Len(r.op) + 1, r.k - 1)
        /\ MatchesNumPattern(SubSeq(t, r.k, Len(t)))}

Respects(v, op, bound) ==
    CASE op = <<"<">>      -> NumLt(v, bound)
      [] op = <<"<", "=">> -> NumLe(v, bound)
      [] op = <<">">>      -> NumGt(v, bound)
      [] op = <<">", "=">> -> NumGe(v, bound)

\* C2: for a threshold text <op><bound>, matchesThreshold answers true exactly
\* when the value has a leading numeric token v and v op bound holds; for
\* "<100" the value "99.9" matches and the value "100" does not.
ThresholdEvaluation ==
    /\ call = "matchesThreshold" =>
           \A r \in ThresholdReadings(expected) :
               answer = (/\ HasLeadingNumber(value)
                         /\ Respects(LeadingNumber(value), r.op,
                                     parseFloat(SubSeq(expected, r.k, Len(expected)))))
    /\ (call = "matchesThreshold" /\ expected = LT100 /\ value = Str(V99_9)) => answer = TRUE
    /\ (call = "matchesThreshold" /\ expected = LT100 /\ value = Str(V100)) => answer = FALSE

\* C2 witness: 99.9 against <100 has been evaluated and matched.
ThresholdBelowBoundReached ==
    /\ call = "matchesThreshold"
    /\ expected = LT100
    /\ value = Str(V99_9)
    /\ answer = TRUE

\* C3: a value whose trimmed, case-folded text contains +/- matches a range
\* whose trimmed, case-folded text is "negative" and no other range text
\* that lacks +/-; a value without +/- matches exactly when the two trimmed,
\* case-folded texts are equal.
SentinelMatch ==
    call = "matchesString" =>
        LET sv == toLowerCase(trim(toString(value)))
            ev == toLowerCase(trim(expected))
        IN  /\ (includes(sv, PlusMinus) /\ ev = Negative) => answer = TRUE
            /\ (includes(sv, PlusMinus) /\ ev # Negative /\ ~includes(ev, PlusMinus))
                   => answer = FALSE
            /\ ~includes(sv, PlusMinus) => (answer = (sv = ev))

\* C3 witness: the value "+/-" has been matched against the range "Negative".
SentinelMatchReached ==
    /\ call = "matchesString"
    /\ value = Str(PlusMinus)
    /\ expected = TextNegative
    /\ answer = TRUE

(***************************************************************************)
(* Properties of the reference matcher                                     *)
(***************************************************************************)
\* the normalized test name and gender of the patient row looked up
TestNameOf(pRow) == toLowerCase(trim(toString(pRow.LBTEST)))
GenderOf(pRow) == OptTrimLower(pRow.Gender)
ValueIsNumeric(pRow) == HasDigit(TextOrEmpty(pRow.LBORRES))

KeySet(map) == {map[i].key : i \in 1..Len(map)}
RefSet(map, key) == Range(MapGet(map, key))

\* the positions of the entries whose normalized gender cell is g
WithGender(list, g) == {i \in 1..Len(list) : OptTrimLower(list[i].GenderNotes) = g}

Least(S) == CHOOSE i \in S : \A j \in S : i <= j

\* C5: selectBestGenderMatch returns the first entry whose normalized gender
\* cell equals the patient's normalized gender; without one, the first entry
\* whose gender cell normalizes to "both"; without one, the first entry of
\* the list; and null for the empty list.
GenderSelection ==
    call = "selectBestGenderMatch" =>
        LET same == WithGender(entryList, GenderOf(patientRow))
            both == WithGender(entryList, Str(Both))
        IN  IF entryList = <<>> THEN matched = Null
            ELSE IF same # {} THEN matched = entryList[Least(same)]
            ELSE IF both # {} THEN matched = entryList[Least(both)]
            ELSE matched = entryList[1]

\* C5 witness: for the entries [Male, Both] and a female patient the Both
\* entry has been returned.
GenderBothReached ==
    /\ call = "selectBestGenderMatch"
    /\ Len(entryList) = 2
    /\ entryList[1].GenderNotes = Str(TextMale)
    /\ entryList[2].GenderNotes = Str(TextBoth)
    /\ patientRow.Gender = Str(TextFemale)
    /\ matched = entryList[2]

\* the keys that hold both "glucose" and "fasting"
GlucoseFastingKeys(map) ==
    {k \in KeySet(map) : includes(k, Glucose) /\ includes(k, Fasting)}

\* C6: when a key equals the normalized test name, the test name contains
\* "glucose", the value has a digit and another key holds both "glucose" and
\* "fasting", the entry returned is the gender-best entry of a key holding
\* "glucose" and "fasting".
GlucoseOverride ==
    (/\ call = "findBestReferenceMatch"
     /\ TestNameOf(patientRow) \in KeySet(referenceMap)
     /\ includes(TestNameOf(patientRow), Glucose)
     /\ ValueIsNumeric(patientRow)
     /\ GlucoseFastingKeys(referenceMap) \ {TestNameOf(patientRow)} # {})
    => \E k \in GlucoseFastingKeys(referenceMap) :
           matched = selectBestGenderMatch(MapGet(referenceMap, k), GenderOf(patientRow))

\* C7: when a key equals the normalized test name and the value has no
\* digit, the entry returned is the gender-best entry of that key's own
\* entries, whatever the test name.
ExactFallback ==
    (/\ call = "findBestReferenceMatch"
     /\ TestNameOf(patientRow) \in KeySet(referenceMap)
     /\ ~ValueIsNumeric(patientRow))
    => matched = selectBestGenderMatch(MapGet(referenceMap, TestNameOf(patientRow)),
                                       GenderOf(patientRow))

\* the override keys of a test name: the keys that strictly contain it
OverrideKeys(map, t) == {k \in KeySet(map) : includes(k, t) /\ k # t}

\* the entries with a numeric range among the entries of the keys
NumericEntries(map, keys) ==
    {r \in UNION {RefSet(map, k) : k \in keys} : IsNumericRange(r)}

\* r is a best gender match among the candidates: one of them, of the
\* patient's gender when a candidate is, else a "both" entry when one is
IsGenderBestAmong(r, candidates, g) ==
    /\ r \in candidates
    /\ (\E c \in candidates : OptTrimLower(c.GenderNotes) = g)
           => OptTrimLower(r.GenderNotes) = g
    /\ (/\ ~\E c \in candidates : OptTrimLower(c.GenderNotes) = g
        /\ \E c \in candidates : OptTrimLower(c.GenderNotes) = Str(Both))
           => OptTrimLower(r.GenderNotes) = Str(Both)

\* the case of the numeric preference of Strategy 1: an exact key, a value
\* with a digit, a numeric-range entry among the override keys
NumericOverrideCase ==
    /\ call = "findBestReferenceMatch"
    /\ TestNameOf(patientRow) \in KeySet(referenceMap)
    /\ ValueIsNumeric(patientRow)
    /\ NumericEntries(referenceMap,
                      OverrideKeys(referenceMap, TestNameOf(patientRow))) # {}

ContainsKeys(map, t) == {k \in KeySet(map) : includes(t, k) \/ includes(k, t)}

\* the key an entry is filed under
KeyOfRow(map, r) == CHOOSE k \in KeySet(map) : r \in RefSet(map, k)

\* C4: when a key equals the test name, the entry returned is filed under a
\* key equal to, holding or held by the test name, or - the test name
\* holding "glucose" - under a key holding "glucose" and "fasting"; when no
\* key equals the test name but some key holds it or is held by it, the entry
\* returned is filed under such a key (never under one that only the
\* synonyms relate to the test name).
StrategyOrdering ==
    (call = "findBestReferenceMatch" /\ TestNameOf(patientRow) # <<>>) =>
        LET t == TestNameOf(patientRow)
        IN  /\ t \in KeySet(referenceMap) =>
                   /\ matched # Null
                   /\ \/ KeyOfRow(referenceMap, matched)
                             \in {t} \cup ContainsKeys(referenceMap, t)
                      \/ /\ includes(t, Glucose)
                         /\ KeyOfRow(referenceMap, matched)
                                \in GlucoseFastingKeys(referenceMap)
            /\ (t \notin KeySet(referenceMap) /\ ContainsKeys(referenceMap, t) # {}) =>
                   /\ matched # Null
                   /\ KeyOfRow(referenceMap, matched) \in ContainsKeys(referenceMap, t)

\* C4 witness: no key equals the test name, one key is held by it and a
\* longer key is related to it by a synonym only; the entry returned is filed
\* under the key held by the test name.
SubstringBeforeSynonymReached ==
    /\ call = "findBestReferenceMatch"
    /\ TestNameOf(patientRow) \notin KeySet(referenceMap)
    /\ ContainsKeys(referenceMap, TestNameOf(patientRow)) # {}
    /\ \E k \in KeySet(referenceMap) \ ContainsKeys(referenceMap, TestNameOf(patientRow)) :
           IsFuzzyMatch(TestNameOf(patientRow), k)
    /\ matched # Null
    /\ KeyOfRow(referenceMap, matched) \in ContainsKeys(referenceMap, TestNameOf(patientRow))

\* a ranks before b among the keys related to the test name t: a key held
\* by t before a key that holds t, then the longer key, then the alphabet
RanksBefore(t, a, b) ==
    \/ includes(t, a) /\ ~includes(t, b)
    \/ /\ includes(t, a) = includes(t, b)
       /\ \/ Len(a) > Len(b)
          \/ Len(a) = Len(b) /\ localeCompare(a, b) < 0

\* the case of the substring ranking: no key equals the test name, some key
\* is related to it by containment, and the numeric preference does not
\* apply (one related key only, a value without digit, or no numeric range)
SubstringRankingCase ==
    /\ call = "findBestReferenceMatch"
    /\ TestNameOf(patientRow) # <<>>
    /\ TestNameOf(patientRow) \notin KeySet(referenceMap)
    /\ ContainsKeys(referenceMap, TestNameOf(patientRow)) # {}
    /\ \/ Cardinality(ContainsKeys(referenceMap, TestNameOf(patientRow))) = 1
       \/ ~ValueIsNumeric(patientRow)
       \/ NumericEntries(referenceMap,
                         ContainsKeys(referenceMap, TestNameOf(patientRow))) = {}

\* C9: in that case the entry returned is the gender-best entry of the key
\* that ranks before every other related key.
SubstringRanking ==
    SubstringRankingCase =>
        \E k \in ContainsKeys(referenceMap, TestNameOf(patientRow)) :
            /\ \A o \in ContainsKeys(referenceMap, TestNameOf(patientRow)) \ {k} :
                   RanksBefore(TestNameOf(patientRow), k, o)
            /\ matched = selectBestGenderMatch(MapGet(referenceMap, k), GenderOf(patientRow))

\* C9 witness: a shorter key held by the test name has been preferred to a
\* longer key that holds the test name.
SubstringRankingReached ==
    /\ SubstringRankingCase
    /\ matched # Null
    /\ includes(TestNameOf(patientRow), KeyOfRow(referenceMap, matched))
    /\ \E o \in ContainsKeys(referenceMap, TestNameOf(patientRow)) :
           /\ ~includes(TestNameOf(patientRow), o)
           /\ Len(o) > Len(KeyOfRow(referenceMap, matched))

\* the synonym groups of the fixed table
SynonymGroups ==
    {Range(variations[v].test) \cup Range(variations[v].ref) : v \in 1..Len(variations)}

\* the key k qualifies for the test name t: one group has a synonym held by
\* t and a synonym held by k
Qualifies(t, k) ==
    \E group \in SynonymGroups :
        /\ \E x \in group : includes(t, x)
        /\ \E y \in group : includes(k, y)

\* the case of the synonym strategy: no key equals, holds or is held by the
\* test name
SynonymCase ==
    /\ call = "findBestReferenceMatch"
    /\ TestNameOf(patientRow) # <<>>
    /\ TestNameOf(patientRow) \notin KeySet(referenceMap)
    /\ ContainsKeys(referenceMap, TestNameOf(patientRow)) = {}

\* C10: in that case the entry returned is the gender-best entry of a
\* qualifying key of greatest length; a key that no single group relates to
\* the test name is never used, and without a qualifying key nothing is
\* returned.
SynonymStrategy ==
    SynonymCase =>
        LET qualifying == {k \in KeySet(referenceMap) : Qualifies(TestNameOf(patientRow), k)}
        IN  IF qualifying = {} THEN matched = Null
            ELSE \E k \in qualifying :
                     /\ \A o \in qualifying : Len(o) <= Len(k)
                     /\ matched = selectBestGenderMatch(MapGet(referenceMap, k),
                                                        GenderOf(patientRow))

\* C10 witness: of two qualifying keys of different lengths the longer one
\* has been used, while a key of another group is in the map.
SynonymLongestReached ==
    /\ SynonymCase
    /\ matched # Null
    /\ \E o \in KeySet(referenceMap) :
           /\ Qualifies(TestNameOf(patientRow), o)
           /\ Len(o) < Len(KeyOfRow(referenceMap, matched))
    /\ \E u \in KeySet(referenceMap) : ~Qualifies(TestNameOf(patientRow), u)

\* the test name is missing, or empty once trimmed
TestNameMissing(pRow) ==
    \/ pRow.LBTEST.type \in {"undefined", "null"}
    \/ trim(toString(pRow.LBTEST)) = <<>>

\* C11: over an index whose lists are not empty, the call returns (it does not
\* throw, whatever cell is missing), and it returns null exactly when the
\* test name is missing or empty once trimmed, or no key equals it, holds
\* it, is held by it or shares a synonym group with it.
NullExactlyWhenNoKey ==
    call = "findBestReferenceMatch" =>
        (matched = Null <=>
            \/ TestNameMissing(patientRow)
            \/ \A k \in KeySet(referenceMap) :
                   /\ k # TestNameOf(patientRow)
                   /\ ~includes(k, TestNameOf(patientRow))
                   /\ ~includes(TestNameOf(patientRow), k)
                   /\ ~Qualifies(TestNameOf(patientRow), k))

\* C11 witness: the call has returned null for a patient row without test
\* name and without gender, while the index has keys.
MissingCellsReached ==
    /\ call = "findBestReferenceMatch"
    /\ referenceMap # <<>>
    /\ patientRow.LBTEST = Undefined
    /\ patientRow.Gender = Undefined
    /\ matched = Null

LeadingToken ==
    call = "extractNumericValue" =>
        /\ answer = IF HasLeadingNumber(value) THEN LeadingNumber(value) ELSE Null
        /\ value = Str(TextCells8187) => answer = Num(81877, 10)
        /\ value = Str(TextCellsFirst) => answer = Null
        /\ value.type = "number" => answer = value

\* C13 witness: a text with a number further on, but none at its start, has
\* given null.
NumberFurtherOnReached ==
    /\ call = "extractNumericValue"
    /\ value.type = "string"
    /\ \E i \in 2..Len(value.str) : IsDigit(value.str[i])
    /\ ~HasLeadingNumber(value)
    /\ answer = Null

\* C14: for every string, extractNumericValue gives what it gives for the
\* string trimmed.
TrimmedExtraction ==
    (call = "extractNumericValue" /\ value.type = "string") =>
        answer = extractNumericValue(Str(trim(value.str)))

\* the range text with its commas removed and its dashes, en and em, made
\* hyphens
HyphenForm(range) ==
    ReplaceAll(ReplaceAll(RemoveAll(range, ","), EnDash, "-"), EmDash, "-")

\* C15: parseRange gives for a range text the interval it gives for the text
\* with commas removed and en and em dashes made hyphens.
SeparatorsNormalized ==
    call = "parseRange" => answer = parseRange(HyphenForm(expected))

(***************************************************************************)
(* Properties of the reference index                                       *)
(***************************************************************************)
\* the key a reference row is due: its Parameter as text, trimmed and in
\* lower case; the empty text when the cell is missing
KeyDue(row) ==
    IF row.Parameter.type \in {"undefined", "null"} THEN <<>>
    ELSE toLowerCase(trim(toString(row.Parameter)))

\* the places (list, position) where a row is filed
PlacesOf(map, row) ==
    {p \in (1..Len(map)) \X (1..MaxRows + 1) :
        p[2] <= Len(map[p[1]].refs) /\ map[p[1]].refs[p[2]] = row}

\* C19: after any rows have been gone through, every key is non-empty and is
\* the trimmed, lower-cased Parameter of each row under it, no two lists have
\* the same key, no list is empty, a row whose key is empty or missing is in
\* no list, every other row is in exactly one place, and the rows of a list
\* are in the order they were met.
IndexConstruction ==
    /\ \A i \in 1..Len(referenceMap) :
           /\ referenceMap[i].key # <<>>
           /\ referenceMap[i].refs # <<>>
           /\ \A j \in 1..Len(referenceMap[i].refs) :
                  /\ KeyDue(referenceMap[i].refs[j]) = referenceMap[i].key
                  /\ referenceMap[i].refs[j] \in Range(ingested)
                  /\ \A k \in 1..Len(referenceMap[i].refs) :
                         j < k => referenceMap[i].refs[j].id < referenceMap[i].refs[k].id
           /\ \A k \in 1..Len(referenceMap) : referenceMap[k].key = referenceMap[i].key => k = i
    /\ \A n \in 1..Len(ingested) :
           Cardinality(PlacesOf(referenceMap, ingested[n])) =
               IF KeyDue(ingested[n]) = <<>> THEN 0 ELSE 1

\* C19 witness: a row without key has been skipped between two rows that
\* went to the same list, written differently in the sheet.
SkippedRowReached ==
    /\ Len(ingested) = 3
    /\ KeyDue(ingested[2]) = <<>>
    /\ ingested[1].Parameter # ingested[3].Parameter
    /\ Len(referenceMap) = 1
    /\ referenceMap[1].refs = <<ingested[1], ingested[3]>>

(***************************************************************************)
(* Properties of the bulk runs                                             *)
(***************************************************************************)
\* C16: a result whose patient row findBestReferenceMatch resolves to null,
\* and that the classifier answered (its status is not Error), has the
\* status Not Found and no requiredValue.
NoReferenceIsNotFound ==
    \A n \in 1..Len(results) :
        (/\ findBestReferenceMatch(results[n].row, referenceMap) = Null
         /\ results[n].status # StatusError)
        => /\ results[n].status = StatusNotFound
           /\ results[n].requiredValue = Undefined

\* C17: a result carries a requiredValue only if its status is Unmatched.
RequiredValueOnlyUnmatched ==
    \A n \in 1..Len(results) :
        results[n].requiredValue # Undefined => results[n].status = StatusUnmatched

\* the summary of the application: the results of one status
CountOf(status) == Cardinality({n \in 1..Len(results) : results[n].status = status})

\* C20: every result has one of the statuses Matched, Unmatched, Not Found,
\* Error, and the four counts of the summary add up to the number of results.
FourCategories ==
    /\ \A n \in 1..Len(results) :
           results[n].status \in {StatusMatched, StatusUnmatched, StatusNotFound, StatusError}
    /\ CountOf(StatusMatched) + CountOf(StatusUnmatched) + CountOf(StatusNotFound)
           + CountOf(StatusError) = Len(results)

\* the batches, by their first index, whose results are there and are all
\* Error
ErrorBatches ==
    {b \in 0..Len(results) :
        /\ b % BatchSize = 0
        /\ b < Len(results)
        /\ \A n \in (b + 1)..(b + BatchSize) :
               n <= Len(results) => results[n].status = StatusError}

ReversedInterval ==
    call = "isWithinRange" =>
        \A a \in BoundTexts, b \in BoundTexts, sep \in {<<"-">>, <<" ", "-", " ">>} :
            expected = a \o sep \o b =>
                /\ parseRange(expected) =
                       [type |-> "range", min |-> parseFloat(a), max |-> parseFloat(b)]
                /\ NumGt(parseFloat(a), parseFloat(b)) => answer = FALSE

\* C21 witness: a value lying between the two numbers of a reversed interval
\* has been answered false.
ReversedIntervalReached ==
    /\ call = "isWithinRange"
    /\ expected = <<"2", "-", "1">>
    /\ value = Str(<<"1", ".", "5", "0">>)
    /\ answer = FALSE

\* C22: matchesThreshold reads the bound of a threshold text after removing
\* its commas: it answers for the text what it answers for the text without
\* commas, so "<1,000" has the bound 1000.
CommaThreshold ==
    call = "matchesThreshold" =>
        answer = matchesThreshold(value, RemoveAll(expected, ","))

\* the text of a value or of a range as matchesString is said to compare it:
\* trimmed, in lower case, and "negative" when it holds "+/-"
NormalizedText(text) ==
    LET t == toLowerCase(trim(text))
    IN  IF includes(t, PlusMinus) THEN Negative ELSE t

\* C23: matchesString answers true exactly when the value and the range,
\* both trimmed, put in lower case and made "negative" when they hold "+/-",
\* are equal.
NormalizedEquality ==
    call = "matchesString" =>
        answer = (NormalizedText(toString(value)) = NormalizedText(expected))

(***************************************************************************)
(* Further properties of the bulk runs                                     *)
(***************************************************************************)
\* the places of the comparisons array parsed last whose index is index
EntriesFor(index) ==
    {k \in 1..Len(lastAnswer.comparisons) : lastAnswer.comparisons[k].index = index}

\* the places in results of the rows of the batch answered last
AnsweredPlaces ==
    IF lastAnswer = NoAnswer THEN {}
    ELSE {n \in 1..Len(patientRows) :
              n - 1 >= lastAnswer.startIndex /\ n - 1 < lastAnswer.startIndex + BatchSize}

\* C24: of the batch the classifier answered last, a row whose global index
\* (start index of the batch + position in it) has no entry in the
\* comparisons array has the status Error and no requiredValue; any other
\* row has the status and the requiredValue of the first entry carrying its
\* global index, whatever the other entries say.
AnswerMapping ==
    \A n \in AnsweredPlaces :
        /\ n <= Len(results)
        /\ results[n].row = patientRows[n]
        /\ IF EntriesFor(n - 1) = {}
           THEN /\ results[n].status = StatusError
                /\ results[n].requiredValue = Undefined
           ELSE LET first == lastAnswer.comparisons[Least(EntriesFor(n - 1))]
                IN  /\ results[n].status = first.status
                    /\ results[n].requiredValue = first.requiredValue

\* C24 witness: the second batch has been answered with two entries for its
\* row, after an entry for a row of the first batch, and the row has the
\* answer of the first of the two.
SecondEntryIgnoredReached ==
    /\ lastAnswer.startIndex = BatchSize
    /\ Len(lastAnswer.comparisons) >= 2
    /\ lastAnswer.comparisons[1].index = 0
    /\ lastAnswer.comparisons[1].status = StatusMatched
    /\ \E j \in 2..Len(lastAnswer.comparisons) :
           /\ lastAnswer.comparisons[j].index = BatchSize
           /\ lastAnswer.comparisons[j].status = StatusUnmatched
           /\ \A i \in 1..(j - 1) : lastAnswer.comparisons[i].index # BatchSize
    /\ results[BatchSize + 1].status = StatusUnmatched

(***************************************************************************)
(* Further properties of findBestReferenceMatch                            *)
(***************************************************************************)
\* C25: what findBestReferenceMatch returns, when not null, is one of the
\* entries (the very object) of some entry list of the reference map.
ResolvedFromIndex ==
    (call = "findBestReferenceMatch" /\ matched # Null) =>
        \E i \in 1..Len(referenceMap) :
            \E j \in 1..Len(referenceMap[i].refs) : referenceMap[i].refs[j] = matched

\* C25 witness: a test name that is no key of the map has been resolved to
\* an entry of a key that holds two, the map holding another key besides.
ResolvedAmongSeveralReached ==
    /\ call = "findBestReferenceMatch"
    /\ matched # Null
    /\ ~MapHas(referenceMap, TestNameOf(patientRow))
    /\ Len(referenceMap) >= 2
    /\ \E i \in 1..Len(referenceMap) :
           /\ Len(referenceMap[i].refs) >= 2
           /\ \E j \in 1..Len(referenceMap[i].refs) : referenceMap[i].refs[j] = matched

\* the run has returned its results, at the end of its loop or from the
\* catch clause of the daily quota
Returned == pc \in {"returned", "returnedEarly"}

\* C26: when a bulk run returns, its results are as many as the patient rows
\* and the i-th result holds the i-th patient row.
OneResultPerRow ==
    Returned =>
        /\ Len(results) = Len(patientRows)
        /\ \A i \in 1..Len(results) : results[i].row = patientRows[i]

\* C26 witness: the run has returned from the daily quota error of its
\* second batch, the first batch answered, with a result for every row.
QuotaReturnCompleteReached ==
    /\ pc = "returnedEarly"
    /\ batchStart = BatchSize
    /\ lastAnswer.startIndex = 0
    /\ Len(results) = Len(patientRows)
    /\ results[1].status # StatusError
    /\ results[Len(results)].status = StatusError

\* the rows of the batch that starts at startIndex have their results, all
\* of status Error
BatchGivenError(startIndex) ==
    \A n \in 1..Len(patientRows) :
        (n - 1 >= startIndex /\ n - 1 < startIndex + BatchSize) =>
            /\ n <= Len(results)
            /\ results[n].status = StatusError

ProgressConsistent ==
    /\ \A k \in 1..Len(progressCalls) :
           /\ progressCalls[k].total = Len(patientRows)
           /\ progressCalls[k].processed <= progressCalls[k].total
           /\ progressCalls[k].processed > (IF k = 1 THEN 0 ELSE progressCalls[k - 1].processed)
    /\ (progressCalls # <<>> /\ pc # "returnedEarly") =>
           progressCalls[Len(progressCalls)].processed = Len(results)
    /\ (progressCalls = <<>> /\ pc # "returnedEarly") => results = <<>>

\* C28 witness: the run has returned after two calls of onProgress, the last
\* one for a batch shorter than BatchSize.
LastShortBatchReportedReached ==
    /\ pc = "returned"
    /\ Len(progressCalls) = 2
    /\ progressCalls[1].processed = BatchSize
    /\ progressCalls[2].processed = Len(patientRows)
    /\ Len(patientRows) < 2 * BatchSize

\* the related key that ranks before every other related key
TopRankedKey(map, t) ==
    CHOOSE k \in ContainsKeys(map, t) :
        \A o \in ContainsKeys(map, t) \ {k} : RanksBefore(t, k, o)

\* the case of the numeric preference of Strategy 2: no key equals the test
\* name, several keys are related to it by containment, the value has a
\* digit and some related key has a numeric-range entry
NumericRankingCase ==
    /\ call = "findBestReferenceMatch"
    /\ TestNameOf(patientRow) # <<>>
    /\ TestNameOf(patientRow) \notin KeySet(referenceMap)
    /\ Cardinality(ContainsKeys(referenceMap, TestNameOf(patientRow))) >= 2
    /\ ValueIsNumeric(patientRow)
    /\ NumericEntries(referenceMap, ContainsKeys(referenceMap, TestNameOf(patientRow))) # {}

\* C29 as stated: in that case, the top-ranked key having a numeric-range
\* entry, the entry returned is filed under the top-ranked key.
NumericRankingTopKey ==
    (/\ NumericRankingCase
     /\ NumericEntries(referenceMap,
                       {TopRankedKey(referenceMap, TestNameOf(patientRow))}) # {})
    => KeyOfRow(referenceMap, matched) = TopRankedKey(referenceMap, TestNameOf(patientRow))

\* how well the gender cell of an entry suits the gender g: 1 the same,
\* 2 "both", 3 neither
GenderClass(r, g) ==
    IF OptTrimLower(r.GenderNotes) = g THEN 1
    ELSE IF OptTrimLower(r.GenderNotes) = Str(Both) THEN 2
    ELSE 3

\* the entry a comes before the entry b in the pool of the related keys: its
\* key ranks before b's, or it stands before b in the list of their key
PooledBefore(map, t, a, b) ==
    LET ka == KeyOfRow(map, a)
        kb == KeyOfRow(map, b)
    IN  IF ka # kb THEN RanksBefore(t, ka, kb)
        ELSE \E i \in 1..Len(MapGet(map, ka)) : \E j \in (i + 1)..Len(MapGet(map, ka)) :
                 MapGet(map, ka)[i] = a /\ MapGet(map, ka)[j] = b

\* C29 amended: in that case the entry returned is a numeric-range entry of
\* the related keys pooled: one of the patient's gender if the pool has
\* one, else a "both" entry if it has one, else the first of the pool; and
\* among the entries that suit the gender as well, the first in the order of
\* the ranking.  It is filed under the top-ranked key only if no key ranked
\* lower has a numeric-range entry that suits the gender better.
NumericRankingPooled ==
    NumericRankingCase =>
        LET t == TestNameOf(patientRow)
            g == GenderOf(patientRow)
            pool == NumericEntries(referenceMap, ContainsKeys(referenceMap, t))
            best == IF \E c \in pool : GenderClass(c, g) = 1 THEN 1
                    ELSE IF \E c \in pool : GenderClass(c, g) = 2 THEN 2
                    ELSE 3
            suited == IF best = 3 THEN pool ELSE {c \in pool : GenderClass(c, g) = best}
        IN  /\ matched \in suited
            /\ \A c \in suited \ {matched} : PooledBefore(referenceMap, t, matched, c)

\* C29 witness: the top-ranked key has a numeric-range entry for both
\* genders, and the entry returned is the numeric-range entry of the
\* patient's gender of a key ranked lower.
LowerKeyGenderEntryReached ==
    /\ NumericRankingCase
    /\ \E r \in NumericEntries(referenceMap,
                               {TopRankedKey(referenceMap, TestNameOf(patientRow))}) :
           GenderClass(r, GenderOf(patientRow)) = 2
    /\ matched # Null
    /\ GenderClass(matched, GenderOf(patientRow)) = 1
    /\ KeyOfRow(referenceMap, matched) # TopRankedKey(referenceMap, TestNameOf(patientRow))

\* the maps holding the keys of map, each with its entry list, inserted in
\* any order
ReorderedMaps(map) ==
    {[i \in 1..Len(map) |-> map[p[i]]] :
        p \in {q \in [1..Len(map) -> 1..Len(map)] :
                  \A i \in 1..Len(map) : \A j \in 1..Len(map) : q[i] = q[j] => i = j}}

\* C30: findBestReferenceMatch returns for the patient row the same entry
\* whatever the order in which the keys of the map were inserted.
InsertionOrderIrrelevant ==
    call = "findBestReferenceMatch" =>
        \A m \in ReorderedMaps(referenceMap) :
            findBestReferenceMatch(patientRow, m) = matched

=============================================================================
